---- MODULE Spec2Model ----
(***************************************************************************)
(* Track-plan layout editor: the canvas controller (Canvas.tsx), the       *)
(* toolbar operations of App.tsx and the connector geometry they use.      *)
(*                                                                         *)
(* Numbers.  Lengths are integer millimetres and angles integer degrees,   *)
(* multiples of 15.  sin/cos come from a table scaled by TrigScale, exact  *)
(* at multiples of 90 degrees; a rotated offset is rounded to the nearest  *)
(* millimetre.  Math.hypot(dx, dy) is compared through its square.         *)
(*                                                                         *)
(* Optional values (T | null) are sequences of length 0 or 1.              *)
(*                                                                         *)
(* Events.  One pointer: while the canvas holds the pointer capture (a     *)
(* drag or a pan is in progress) no other pointer-down and no toolbar or   *)
(* sidebar click is delivered; keyboard shortcuts (R, Delete, Escape) are  *)
(* delivered at any time.                                                  *)
(*                                                                         *)
(* Sessions.  The projects are loaded from localStorage when the page      *)
(* opens, so a session starts on a layout an earlier session saved         *)
(* (SavedLayouts) with a fresh canvas, and runs for at most MaxEvents      *)
(* input events.  lastEvent names the event handled last.                  *)
(***************************************************************************)
EXTENDS Integers, Sequences, FiniteSets, TLC

\* ---------------------------------------------------------------- bounds
\* Items a layout holds at most (ids handed out), events per session.
MaxItems == 4
MaxEvents == 4

\* ------------------------------------------------------ program constants
SNAP_DISTANCE_MM == 8
ANGLE_TOLERANCE_DEG == 15
TRACK_EDGE_WIDTH_MM == 28
ROTATION_STEP_DEG == 15
VIEWPORT_SIZE == 1800

\* ------------------------------------------------------------ input sets
\* The component a session places from the sidebar; pieces of the other
\* component come with the saved layouts.
ComponentIds == {"G20"}
\* World points a sidebar component can be dropped at.
DropPoints == {[x |-> 29, y |-> 0]}
\* World positions the pointer can drag the grabbed item to.
TentativePoints == {[x |-> 14, y |-> 0], [x |-> 28, y |-> 0], [x |-> 29, y |-> 0]}
\* deltaDeg arguments of rotateSelected (toolbar buttons, R / Shift+R).
RotateDeltas == {ROTATION_STEP_DEG, -ROTATION_STEP_DEG}

NoItem == 0
None == <<>>
Some(v) == <<v>>
Val(o) == o[1]

\* A TrackComponentDefinition: an optional field is Some(v) or None; the meta
\* record, when there is one, has its variant, its direction and, in num, its
\* fields that hold a finite number.
Definition(id, type, lengthMm, radiusMm, angleDeg, clockwise, meta) ==
    [id |-> id, type |-> type, lengthMm |-> lengthMm, radiusMm |-> radiusMm,
     angleDeg |-> angleDeg, clockwise |-> clockwise, meta |-> meta]

\* The catalog: straight pieces, by component id.
Catalog == [G20 |-> Definition("G20", "straight", Some(20), None, None, FALSE, None),
            G15 |-> Definition("G15", "straight", Some(15), None, None, FALSE, None)]

\* ------------------------------------------------------------- geometry
Abs(n) == IF n < 0 THEN -n ELSE n

\* JavaScript's % : the remainder takes the sign of the dividend.
JsRem(a, b) == IF a >= 0 THEN a % b ELSE -((-a) % b)

\* Variant: result < -180, so that -180 is kept.
normalizeAngleStrict(deg) ==
    LET result == JsRem(deg, 360)
    IN  IF result > 180 THEN result - 360
        ELSE IF result < -180 THEN result + 360
        ELSE result

normalizeAngle(deg) ==
    LET result == JsRem(deg, 360)
    IN  IF result > 180 THEN result - 360
        ELSE IF result <= -180 THEN result + 360
        ELSE result

\* TrigScale * sin(0), sin(15), ..., sin(345), to the nearest unit.
SinTable ==
    <<0, 259, 500, 707, 866, 966, 1000, 966, 866, 707, 500, 259,
      0, -259, -500, -707, -866, -966, -1000, -966, -866, -707, -500, -259>>

\* The scale of the table: its entry for sin(90).
TrigScale == SinTable[7]

\* TrigScale * Math.sin(toRad(deg)), deg a multiple of 15.
SinK(deg) == SinTable[((deg % 360) \div 15) + 1]

CosK(deg) == SinK(deg + 90)

RoundDiv(n) == (2 * n + TrigScale) \div (2 * TrigScale)

rotatePointLocal(x, y, rotationDeg) ==
    [x |-> RoundDiv(x * CosK(rotationDeg) - y * SinK(rotationDeg)),
     y |-> RoundDiv(x * SinK(rotationDeg) + y * CosK(rotationDeg))]

makeConnector(xMm, yMm, directionDeg) ==
    [xMm |-> xMm, yMm |-> yMm, directionDeg |-> directionDeg,
     widthMm |-> TRACK_EDGE_WIDTH_MM]

\* option ?? fallback
OrElse(option, fallback) == IF option = None THEN fallback ELSE Val(option)

getStraightGeometry(def) ==
    [start |-> makeConnector(0, 0, 180),
     end   |-> makeConnector(OrElse(def.lengthMm, 0), 0, 0)]

\* Variant: the rise of the arc is halved.
ArcEndHalfRise(radius, angleDeg, sign, directionDeg) ==
    makeConnector(RoundDiv(radius * SinK(angleDeg)),
                  sign * RoundDiv((radius \div 2) * (TrigScale - CosK(angleDeg))),
                  directionDeg)

\* The end of an arc from the origin along +X: (r sin, sign (r - r cos)),
\* rounded to the millimetre.
ArcEnd(radius, angleDeg, sign, directionDeg) ==
    makeConnector(RoundDiv(radius * SinK(angleDeg)),
                  sign * RoundDiv(radius * (TrigScale - CosK(angleDeg))),
                  directionDeg)

getCurveGeometry(def) ==
    [start |-> makeConnector(0, 0, 0 - 180 + OrElse(def.angleDeg, 0)),
     end   |-> ArcEnd(OrElse(def.radiusMm, 0), OrElse(def.angleDeg, 0),
                      IF def.clockwise THEN -1 ELSE 1, 0)]

\* hasNumber(meta.field), meta a record.
hasNumber(meta, field) == field \in DOMAIN meta.num

isSwitchDirection(value) == value \in {"left", "right"}

\* A meta that is a record of the variant with the fields, all finite numbers.
IsVariant(meta, variant, fields) ==
    /\ meta # None
    /\ Val(meta).variant = variant
    /\ \A field \in fields : hasNumber(Val(meta), field)

isSimpleSwitchMeta(meta) ==
    /\ IsVariant(meta, "simple-switch",
                 {"straightLengthMm", "branchRadiusMm", "branchAngleDeg"})
    /\ isSwitchDirection(Val(meta).direction)

isCurvedSwitchMeta(meta) ==
    /\ IsVariant(meta, "curved-switch", {"innerRadiusMm", "outerRadiusMm", "angleDeg"})
    /\ isSwitchDirection(Val(meta).direction)

isThreeWaySwitchMeta(meta) ==
    IsVariant(meta, "three-way",
              {"straightLengthMm", "branchRadiusMm", "branchAngleDeg", "branchOffsetMm"})

isYSwitchMeta(meta) ==
    IsVariant(meta, "y-switch", {"stubLengthMm", "branchRadiusMm", "branchAngleDeg"})

isDoubleSlipMeta(meta) ==
    IsVariant(meta, "double-slip", {"lengthMm", "crossingAngleDeg", "slipRadiusMm"})

isCrossingMeta(meta) ==
    /\ meta # None
    /\ hasNumber(Val(meta), "lengthMm")
    /\ hasNumber(Val(meta), "crossingAngleDeg")

\* def.id.toUpperCase().includes('L'), for the ids of the definitions here.
IdIncludesL(id) == id \in {"WL"}

\* The PIKO defaults 239.07 mm, 907.97 mm and 15 degrees, to the millimetre.
DefaultSwitchStraightMm == 239
DefaultSwitchRadiusMm == 908
DefaultSwitchAngleDeg == 15

SimpleSwitch(straightLength, radius, branchAngleDeg, directionSign) ==
    [start |-> makeConnector(0, 0, 180),
     end |-> makeConnector(straightLength, 0, 0),
     extraConnectors |->
        [k \in {"branch", "diverging"} |->
            ArcEnd(radius, branchAngleDeg, directionSign,
                   IF radius = DefaultSwitchRadiusMm /\ branchAngleDeg = DefaultSwitchAngleDeg
                   THEN directionSign * branchAngleDeg ELSE 0)]]

\* meta: None when the function is called without it.
getSimpleSwitchGeometry(def, meta) ==
    SimpleSwitch(
        IF meta # None THEN Val(meta).num.straightLengthMm
        ELSE OrElse(def.lengthMm, DefaultSwitchStraightMm),
        IF meta # None THEN Val(meta).num.branchRadiusMm
        ELSE OrElse(def.radiusMm, DefaultSwitchRadiusMm),
        IF meta # None THEN Val(meta).num.branchAngleDeg
        ELSE OrElse(def.angleDeg, DefaultSwitchAngleDeg),
        IF (IF meta # None THEN Val(meta).direction = "left" ELSE IdIncludesL(def.id))
        THEN 1 ELSE -1)

getCurvedSwitchGeometry(meta) ==
    [start |-> makeConnector(0, 0, 180 - 180 + meta.num.angleDeg),
     end |-> ArcEnd(meta.num.outerRadiusMm, meta.num.angleDeg,
                    IF meta.direction = "left" THEN 1 ELSE -1, 0),
     extraConnectors |->
        [k \in {"inner"} |->
            ArcEnd(meta.num.innerRadiusMm, meta.num.angleDeg,
                   IF meta.direction = "left" THEN 1 ELSE -1, 0)]]

\* The branch of a three-way or Y switch: an arc that starts at (offset, 0).
BranchEnd(offset, radius, angleDeg, sign, directionDeg) ==
    makeConnector(offset + RoundDiv(radius * SinK(angleDeg)),
                  sign * RoundDiv(radius * (TrigScale - CosK(angleDeg))),
                  directionDeg)

getThreeWaySwitchGeometry(meta) ==
    [start |-> makeConnector(0, 0, 180),
     end |-> makeConnector(meta.num.straightLengthMm, 0, 0),
     extraConnectors |->
        [leftBranch |-> BranchEnd(meta.num.branchOffsetMm, meta.num.branchRadiusMm,
                                  meta.num.branchAngleDeg, -1, -meta.num.branchAngleDeg),
         rightBranch |-> BranchEnd(meta.num.branchOffsetMm, meta.num.branchRadiusMm,
                                   meta.num.branchAngleDeg, 1, meta.num.branchAngleDeg)]]

getYSwitchGeometry(meta) ==
    [start |-> makeConnector(0, 0, 180),
     end |-> makeConnector(meta.num.stubLengthMm, 0, 0),
     extraConnectors |->
        [left |-> BranchEnd(meta.num.stubLengthMm, meta.num.branchRadiusMm,
                            meta.num.branchAngleDeg, 1, 0),
         right |-> BranchEnd(meta.num.stubLengthMm, meta.num.branchRadiusMm,
                             meta.num.branchAngleDeg, -1, 0)]]

\* The second track of a crossing of even length, through its middle.
CrossTrack(lengthMm, crossingAngleDeg) ==
    [crossStart |->
        makeConnector(lengthMm \div 2 - RoundDiv((lengthMm \div 2) * CosK(crossingAngleDeg)),
                      -RoundDiv((lengthMm \div 2) * SinK(crossingAngleDeg)),
                      180 + crossingAngleDeg),
     crossEnd |->
        makeConnector(lengthMm \div 2 + RoundDiv((lengthMm \div 2) * CosK(crossingAngleDeg)),
                      RoundDiv((lengthMm \div 2) * SinK(crossingAngleDeg)),
                      crossingAngleDeg)]

getDoubleSlipGeometry(meta) ==
    [start |-> makeConnector(0, 0, 180),
     end |-> makeConnector(meta.num.lengthMm, 0, 0),
     extraConnectors |-> CrossTrack(meta.num.lengthMm, meta.num.crossingAngleDeg)]

getCrossingGeometry(meta) ==
    [start |-> makeConnector(0, 0, 180),
     end |-> makeConnector(meta.num.lengthMm, 0, 0),
     extraConnectors |-> CrossTrack(meta.num.lengthMm, meta.num.crossingAngleDeg)]

getSwitchGeometry(def) ==
    IF isSimpleSwitchMeta(def.meta) THEN getSimpleSwitchGeometry(def, def.meta)
    ELSE IF isCurvedSwitchMeta(def.meta) THEN getCurvedSwitchGeometry(Val(def.meta))
    ELSE IF isThreeWaySwitchMeta(def.meta) THEN getThreeWaySwitchGeometry(Val(def.meta))
    ELSE IF isYSwitchMeta(def.meta) THEN getYSwitchGeometry(Val(def.meta))
    ELSE IF isDoubleSlipMeta(def.meta) THEN getDoubleSlipGeometry(Val(def.meta))
    ELSE getSimpleSwitchGeometry(def, None)

getComponentGeometry(def) ==
    CASE def.type = "straight" -> getStraightGeometry(def)
      [] def.type = "curve" -> getCurveGeometry(def)
      [] def.type = "switch" -> getSwitchGeometry(def)
      [] def.type = "crossing" ->
            IF isCrossingMeta(def.meta) THEN getCrossingGeometry(Val(def.meta))
            ELSE getStraightGeometry(def)
      [] OTHER -> getStraightGeometry([def EXCEPT !.lengthMm = Some(OrElse(def.lengthMm, 10))])

\* The ids getComponentGeometry calls warnMissing with.
MissingWarnings(def) ==
    IF def.type \in {"straight", "curve", "switch", "crossing"} THEN <<>> ELSE <<def.id>>

\* geometryCache.get(componentId)
geometryCache(componentId) == getComponentGeometry(Catalog[componentId])

\* listConnectorEntries: start, end (pieces of the catalog have no extras).
ConnectorKeys == <<"start", "end">>

getConnectorByKey(geometry, key) ==
    IF key = "start" THEN geometry.start ELSE geometry.end

\* The rotated direction vector's atan2 is the sum of the two angles.
transformConnector(local, transform) ==
    LET r == rotatePointLocal(local.xMm, local.yMm, transform.rotationDeg)
    IN  [xMm |-> r.x + transform.x,
         yMm |-> r.y + transform.y,
         directionDeg |-> normalizeAngle(local.directionDeg + transform.rotationDeg),
         widthMm |-> local.widthMm]

getEndpointPose(item, connector) ==
    LET rotated == rotatePointLocal(connector.xMm, connector.yMm, item.rotationDeg)
    IN  [position |-> [xMm |-> item.x + rotated.x, yMm |-> item.y + rotated.y],
         directionDeg |-> normalizeAngle(connector.directionDeg + item.rotationDeg)]

\* roundValue (1e-6 mm) is the identity on integer millimetres.
ConnectionTransformAt(anchorPose, movingConnector) ==
    LET desiredDirection == normalizeAngle(anchorPose.directionDeg + 180)
        newRotation == normalizeAngle(desiredDirection - movingConnector.directionDeg)
        rotatedLocal == rotatePointLocal(movingConnector.xMm, movingConnector.yMm, newRotation)
    IN  [position |-> [x |-> anchorPose.position.xMm - rotatedLocal.x,
                       y |-> anchorPose.position.yMm - rotatedLocal.y],
         rotationDeg |-> newRotation]

computeConnectionTransform(anchorItem, anchorConnector, movingConnector) ==
    ConnectionTransformAt(getEndpointPose(anchorItem, anchorConnector), movingConnector)

\* ---------------------------------------------------------------- state
VARIABLES
    placedItems,              \* layout.placedItems, in array order
    connections,              \* layout.connections, in array order
    nextId,                   \* ids handed out so far (getId never repeats)
    selectedItemId,
    selectedEndpoints,
    draggingItemId,
    dragStartTransform,       \* set and cleared together with dragStartClient
    dragPreview,
    dragGroupIds,
    dragGroupDelta,
    snappedEndpoints,
    dragGroupStartTransforms, \* dragGroupStartTransformsRef.current
    isPanning,
    lastTentative,            \* the tentative pose of the last pointer-move
    lastSelectedEndpoint,     \* the endpoint the user clicked last, while a selection stands
    events,                   \* input events handled in this session
    lastEvent,                \* the event handled last
    exportProject,            \* the project handed to buildProjectExport
    importFile,               \* the parsed JSON handed to parseProjectImport
    importResult,             \* what parseProjectImport returned
    definition,               \* the definition handed to getComponentGeometry
    isDev,                    \* import.meta.env.DEV of the build
    geometry,                 \* what getComponentGeometry returned
    diagnostics,              \* the ids written by console.warn
    deg,                      \* the angle handed to normalizeAngle
    normalized,               \* what normalizeAngle returned
    camera,                   \* the camera of the canvas
    wheelEvents,              \* wheel events handled
    projects,                 \* projectsState.projects, in array order
    activeProjectId,          \* projectsState.activeProjectId
    historyMap,               \* historyMap: project id -> undo and redo stacks
    nextProjectId,            \* project ids handed out so far
    nextLayout,               \* layouts produced so far
    ops,                      \* operations on the projects state so far
    lastOp,                   \* the operation done last
    prevOp,                   \* the operation done before it
    lastLayout                \* the active project's layout before the last operation

layoutVars == <<placedItems, connections, nextId>>
selectionVars == <<selectedItemId, selectedEndpoints, lastSelectedEndpoint>>
dragVars == <<draggingItemId, dragStartTransform, dragPreview, dragGroupIds,
              dragGroupDelta, snappedEndpoints, dragGroupStartTransforms,
              isPanning, lastTentative>>
canvas == <<layoutVars, selectionVars, dragVars>>
vars == <<placedItems, connections, nextId, selectedItemId, selectedEndpoints,
          draggingItemId, dragStartTransform, dragPreview, dragGroupIds,
          dragGroupDelta, snappedEndpoints, dragGroupStartTransforms,
          isPanning, lastTentative, lastSelectedEndpoint, events, lastEvent,
          exportProject, importFile, importResult,
          definition, isDev, geometry, diagnostics, deg, normalized,
          camera, wheelEvents,
          projects, activeProjectId, historyMap, nextProjectId, nextLayout,
          ops, lastOp, prevOp, lastLayout>>
serializationVars == <<exportProject, importFile, importResult>>
geometryVars == <<definition, isDev, geometry, diagnostics, deg, normalized>>
cameraVars == <<camera, wheelEvents>>
projectsVars == <<projects, activeProjectId, historyMap, nextProjectId, nextLayout,
                  ops, lastOp, prevOp, lastLayout>>

\* ------------------------------------------------------ layout queries
Range(seq) == {seq[k] : k \in DOMAIN seq}

ItemIdsOf(items) == {items[k].id : k \in DOMAIN items}

\* items.find((item) => item.id === id)
FindItem(items, id) ==
    LET S == {k \in DOMAIN items : items[k].id = id}
    IN  IF S = {} THEN None
        ELSE Some(items[CHOOSE k \in S : \A j \in S : k <= j])

endpointsEqual(a, b) == a.itemId = b.itemId /\ a.connectorKey = b.connectorKey

connectionHasEndpoint(connection, endpoint) ==
    \E k \in 1..2 : endpointsEqual(connection.endpoints[k], endpoint)

\* Variant: the selection must list the endpoints in the connection's order.
connectionMatchesEndpointsOrdered(connection, endpoints) ==
    /\ Len(endpoints) = 2
    /\ endpointsEqual(connection.endpoints[1], endpoints[1])
    /\ endpointsEqual(connection.endpoints[2], endpoints[2])

connectionMatchesEndpoints(connection, endpoints) ==
    /\ Len(endpoints) = 2
    /\ LET first == endpoints[1]
           second == endpoints[2]
           a == connection.endpoints[1]
           b == connection.endpoints[2]
       IN  \/ endpointsEqual(a, first) /\ endpointsEqual(b, second)
           \/ endpointsEqual(a, second) /\ endpointsEqual(b, first)

\* connections.find((connection) => connectionHasEndpoint(connection, endpoint))
findConnectionForEndpoint(endpoint) ==
    LET S == {k \in DOMAIN connections : connectionHasEndpoint(connections[k], endpoint)}
    IN  IF S = {} THEN None
        ELSE Some(connections[CHOOSE k \in S : \A j \in S : k <= j])

ConnectionItemIds ==
    {connections[k].endpoints[e].itemId : k \in DOMAIN connections, e \in 1..2}

\* Variant: each connection is an edge from its first item to its second only.
connectionGraphForward(itemId) ==
    {n \in ConnectionItemIds :
        \E k \in DOMAIN connections :
            /\ connections[k].endpoints[1].itemId # connections[k].endpoints[2].itemId
            /\ connections[k].endpoints[1].itemId = itemId
            /\ connections[k].endpoints[2].itemId = n}

\* connectionGraph.get(itemId): self-connections add no edge.
connectionGraph(itemId) ==
    {n \in ConnectionItemIds :
        \E k \in DOMAIN connections :
            LET first == connections[k].endpoints[1]
                second == connections[k].endpoints[2]
            IN  /\ first.itemId # second.itemId
                /\ \/ first.itemId = itemId /\ second.itemId = n
                   \/ second.itemId = itemId /\ first.itemId = n}

RECURSIVE GroupClosure(_)
GroupClosure(S) ==
    LET N == S \cup UNION {connectionGraph(i) : i \in S}
    IN  IF N = S THEN S ELSE GroupClosure(N)

\* The breadth-first search from itemId; the result as a set of ids.
getConnectedGroupIds(itemId) == GroupClosure({itemId})

isItemGrounded(itemId) ==
    LET f == FindItem(placedItems, itemId)
    IN  IF f = None THEN FALSE ELSE Val(f).isGrounded

\* Variant: only the first endpoint of each connection is looked at.
isEndpointConnectedFirstOnly(itemId, connectorKey) ==
    \E k \in DOMAIN connections :
        /\ connections[k].endpoints[1].itemId = itemId
        /\ connections[k].endpoints[1].connectorKey = connectorKey

isEndpointConnected(itemId, connectorKey) ==
    \E k \in DOMAIN connections, e \in 1..2 :
        /\ connections[k].endpoints[e].itemId = itemId
        /\ connections[k].endpoints[e].connectorKey = connectorKey

isItemConnected(itemId) == itemId \in ConnectionItemIds

PoseOf(item) == [x |-> item.x, y |-> item.y, rotationDeg |-> item.rotationDeg]

getItemTransform(item) ==
    IF /\ dragGroupStartTransforms # None
       /\ item.id \in DOMAIN Val(dragGroupStartTransforms)
       /\ dragGroupDelta # None
       /\ dragGroupIds # None
       /\ item.id \in Val(dragGroupIds)
    THEN LET base == Val(dragGroupStartTransforms)[item.id]
         IN  [x |-> base.x + Val(dragGroupDelta).x,
              y |-> base.y + Val(dragGroupDelta).y,
              rotationDeg |-> base.rotationDeg]
    ELSE IF draggingItemId = item.id /\ dragPreview # None
    THEN Val(dragPreview)
    ELSE PoseOf(item)

\* ----------------------------------------------------------- snapping
\* The (moving connector, target connector) pair visited at step p of the
\* two nested forEach loops over listConnectorEntries.
NumPairs == Len(ConnectorKeys) * Len(ConnectorKeys)
MovingKeyAt(p) == ConnectorKeys[((p - 1) \div Len(ConnectorKeys)) + 1]
TargetKeyAt(p) == ConnectorKeys[((p - 1) % Len(ConnectorKeys)) + 1]

\* Variant: distance >= SNAP_DISTANCE_MM.
TooFarAtLimit(dx, dy) == dx * dx + dy * dy >= SNAP_DISTANCE_MM * SNAP_DISTANCE_MM

\* Math.hypot(dx, dy) > SNAP_DISTANCE_MM, on the squares.
TooFar(dx, dy) == dx * dx + dy * dy > SNAP_DISTANCE_MM * SNAP_DISTANCE_MM

\* Variant: the sign of the angle is kept.
TooSkewSigned(angleDiff) == angleDiff > ANGLE_TOLERANCE_DEG

\* Math.abs(angleDiff) > ANGLE_TOLERANCE_DEG
TooSkew(angleDiff) == Abs(angleDiff) > ANGLE_TOLERANCE_DEG

\* The body of the innermost loop of computeSnappedTransform for one pair of
\* world connectors: None when the pair is rejected, else its distance and
\* solved pose.
SnapPair(tentative, local, movingWorld, targetWorld, endpoints) ==
    LET dx == movingWorld.xMm - targetWorld.xMm
        dy == movingWorld.yMm - targetWorld.yMm
        angleDiff == normalizeAngle(movingWorld.directionDeg - (targetWorld.directionDeg + 180))
        desiredDirection == targetWorld.directionDeg + 180
        deltaRotation == normalizeAngle(desiredDirection - movingWorld.directionDeg)
        rotationDeg == normalizeAngle(tentative.rotationDeg + deltaRotation)
        rotatedLocal == rotatePointLocal(local.xMm, local.yMm, rotationDeg)
    IN  IF TooFar(dx, dy) THEN None
        ELSE IF TooSkew(angleDiff) THEN None
        ELSE Some([distanceSq |-> dx * dx + dy * dy,
                   transform |-> [x |-> targetWorld.xMm - rotatedLocal.x,
                                  y |-> targetWorld.yMm - rotatedLocal.y,
                                  rotationDeg |-> rotationDeg],
                   endpoints |-> endpoints])

\* The pair (movingKey of the dragged item under the tentative pose,
\* targetKey of the other item as placed).
SnapCandidate(itemId, tentative, movingItem, other, movingKey, targetKey) ==
    SnapPair(tentative,
             getConnectorByKey(geometryCache(movingItem.componentId), movingKey),
             transformConnector(
                 getConnectorByKey(geometryCache(movingItem.componentId), movingKey),
                 tentative),
             transformConnector(
                 getConnectorByKey(geometryCache(other.componentId), targetKey),
                 PoseOf(other)),
             [moving |-> [itemId |-> itemId, connectorKey |-> movingKey],
              target |-> [itemId |-> other.id, connectorKey |-> targetKey]])

\* other.id === itemId: the only items the scan leaves out.
SnapSkipsItem(other, itemId) == other.id = itemId

\* Variant: distance <= bestDistance, the last of equally near pairs wins.
SnapBetterOrEqual(candidate, best) ==
    best = None \/ Val(candidate).distanceSq <= Val(best).distanceSq

\* distance < bestDistance
SnapBetter(candidate, best) ==
    best = None \/ Val(candidate).distanceSq < Val(best).distanceSq

\* The best candidate after one more pair: the candidate when it is accepted
\* and nearer than the best so far.
SnapKeep(candidate, best) ==
    IF candidate # None /\ SnapBetter(candidate, best) THEN candidate ELSE best

\* The scan of computeSnappedTransform from step k on, with the best
\* candidate so far; step k is pair ((k-1) % NumPairs) of item ((k-1) \div NumPairs).
RECURSIVE SnapScan(_, _, _, _, _)
SnapScan(itemId, tentative, movingItem, k, best) ==
    IF k > Len(placedItems) * NumPairs THEN best
    ELSE IF SnapSkipsItem(placedItems[((k - 1) \div NumPairs) + 1], itemId) THEN
        SnapScan(itemId, tentative, movingItem, k + 1, best)
    ELSE
        SnapScan(itemId, tentative, movingItem, k + 1,
                 SnapKeep(SnapCandidate(itemId, tentative, movingItem,
                                        placedItems[((k - 1) \div NumPairs) + 1],
                                        MovingKeyAt(((k - 1) % NumPairs) + 1),
                                        TargetKeyAt(((k - 1) % NumPairs) + 1)),
                          best))

\* if (!best) return null; return { transform, endpoints }
SnapResult(best) ==
    IF best = None THEN None
    ELSE Some([transform |-> Val(best).transform, endpoints |-> Val(best).endpoints])

computeSnappedTransform(itemId, tentative) ==
    IF FindItem(placedItems, itemId) = None THEN None
    ELSE SnapResult(SnapScan(itemId, tentative, Val(FindItem(placedItems, itemId)), 1, None))

\* -------------------------------------------------------- group moves
\* The placedItems.map of connectSelectedEndpoints and of
\* autoConnectSnappedEndpoints: rotate and translate the moving group
\* around the moving item's pivot.
MoveGroup(items, movingGroupIds, pivotBefore, pivotAfter, deltaRotation) ==
    [k \in DOMAIN items |->
        LET item == items[k]
            rotated == rotatePointLocal(item.x - pivotBefore.x, item.y - pivotBefore.y,
                                        deltaRotation)
        IN  IF item.id \notin movingGroupIds THEN item
            ELSE [item EXCEPT !.x = pivotAfter.x + rotated.x,
                              !.y = pivotAfter.y + rotated.y,
                              !.rotationDeg = normalizeAngle(item.rotationDeg + deltaRotation)]]

\* The layout with the moving group carried to the solved pose of the moving
\* item and the new connection appended.
LayoutWithConnection(fixedRef, movingRef, movingItem, transform) ==
    [placedItems |-> MoveGroup(placedItems, getConnectedGroupIds(movingRef.itemId),
                               PoseOf(movingItem), transform.position,
                               normalizeAngle(transform.rotationDeg - movingItem.rotationDeg)),
     connections |-> Append(connections, [endpoints |-> <<fixedRef, movingRef>>])]

\* The layout update of a connection between fixedRef and movingRef.
ConnectedLayout(fixedRef, movingRef, fixedItem, movingItem) ==
    LayoutWithConnection(fixedRef, movingRef, movingItem,
        computeConnectionTransform(
            fixedItem,
            getConnectorByKey(geometryCache(fixedItem.componentId), fixedRef.connectorKey),
            getConnectorByKey(geometryCache(movingItem.componentId), movingRef.connectorKey)))

\* Math.abs(a.widthMm - b.widthMm) > 1e-3, on integer millimetres.
WidthMismatch(a, b) == Abs(a.widthMm - b.widthMm) > 0

\* ensureSelectionIsValid, run by the layout effect after every layout change.
ValidItemSelection(sel, items) ==
    IF sel # NoItem /\ sel \notin ItemIdsOf(items) THEN NoItem ELSE sel

ValidEndpointSelection(eps, items) ==
    SelectSeq(eps, LAMBDA endpoint : endpoint.itemId \in ItemIdsOf(items))

\* ------------------------------------------------------------ actions
Item(id, x, y, rotationDeg, isGrounded) ==
    [id |-> id, componentId |-> "G20", x |-> x, y |-> y,
     rotationDeg |-> rotationDeg, isGrounded |-> isGrounded]

Ref(itemId, connectorKey) == [itemId |-> itemId, connectorKey |-> connectorKey]

\* Layouts of earlier sessions: the empty layout; two and three free
\* pieces (placed by click at the origin, dropped, rotated with R);
\* chains built by auto-connect, one with its middle piece grounded;
\* four pieces where an occupied and a free end lie at the same place;
\* two chains laid over each other, one of them with a grounded piece;
\* a chain of two with the start of a free piece, turned to 165 degrees with
\* R, lying on its joint; a long and a short free piece.
SavedLayouts ==
    { [placedItems |-> <<>>, connections |-> <<>>],
      [placedItems |-> <<Item(1, 0, 0, 0, FALSE), Item(2, 29, 0, 0, FALSE)>>,
       connections |-> <<>>],
      [placedItems |-> <<Item(1, 0, 0, 0, FALSE), Item(2, 29, 0, 15, FALSE)>>,
       connections |-> <<>>],
      [placedItems |-> <<Item(1, 0, 0, 0, FALSE), Item(2, 0, 0, 0, FALSE),
                         Item(3, 29, 0, 0, FALSE)>>,
       connections |-> <<>>],
      [placedItems |-> <<Item(1, 0, 0, 0, FALSE), Item(2, 20, 0, 0, FALSE)>>,
       connections |-> <<[endpoints |-> <<Ref(1, "end"), Ref(2, "start")>>]>>],
      [placedItems |-> <<Item(1, 0, 0, 0, FALSE), Item(2, 20, 0, 0, TRUE),
                         Item(3, 40, 0, 0, FALSE)>>,
       connections |-> <<[endpoints |-> <<Ref(1, "end"), Ref(2, "start")>>],
                         [endpoints |-> <<Ref(2, "end"), Ref(3, "start")>>]>>],
      [placedItems |-> <<Item(1, 0, 0, 0, FALSE), Item(2, 0, 0, 0, FALSE),
                         Item(3, 20, 0, 0, FALSE), Item(4, 29, 0, 0, FALSE)>>,
       connections |-> <<[endpoints |-> <<Ref(1, "end"), Ref(3, "start")>>]>>],
      [placedItems |-> <<Item(1, 0, 0, 0, FALSE), Item(2, 20, 0, 0, TRUE),
                         Item(3, 0, 0, 0, FALSE), Item(4, 20, 0, 0, FALSE)>>,
       connections |-> <<[endpoints |-> <<Ref(1, "end"), Ref(2, "start")>>],
                         [endpoints |-> <<Ref(3, "end"), Ref(4, "start")>>]>>],
      [placedItems |-> <<Item(1, 20, 0, 165, FALSE), Item(2, 0, 0, 0, FALSE),
                         Item(3, 20, 0, 0, FALSE)>>,
       connections |-> <<[endpoints |-> <<Ref(2, "end"), Ref(3, "start")>>]>>],
      [placedItems |-> <<Item(1, 0, 0, 0, FALSE),
                         [Item(2, 29, 0, 0, FALSE) EXCEPT !.componentId = "G15"]>>,
       connections |-> <<>>] }

\* activeProjectId: null
NoProject == 0

\* A project; its layout is named by a number, 0 for the default layout.
Project(id, layout) == [id |-> id, layout |-> layout]

\* createInitialProjectsState, and the empty historyMap.
ProjectsAtRest ==
    /\ projects = <<Project(1, 0)>>
    /\ activeProjectId = 1
    /\ historyMap = <<>>
    /\ nextProjectId = 2
    /\ nextLayout = 1
    /\ ops = 0
    /\ lastOp = "load"
    /\ prevOp = "load"
    /\ lastLayout = 0

\* No geometry is asked for.
GeometryAtRest ==
    /\ definition = None
    /\ isDev = FALSE
    /\ geometry = None
    /\ diagnostics = <<>>
    /\ deg = 0
    /\ normalized = None

\* The scale of the camera in millionths.
ScaleUnit == 1000000

\* useState({ scale: 1, x: -VIEWPORT_SIZE / 2, y: -VIEWPORT_SIZE / 2 })
InitialCamera ==
    [scale |-> ScaleUnit, x |-> -(VIEWPORT_SIZE \div 2), y |-> -(VIEWPORT_SIZE \div 2)]

\* The camera as the canvas is mounted.
CameraAtRest ==
    /\ camera = InitialCamera
    /\ wheelEvents = 0

Init ==
    /\ \E saved \in SavedLayouts :
           /\ placedItems = saved.placedItems
           /\ connections = saved.connections
           /\ nextId = Len(saved.placedItems) + 1
    /\ selectedItemId = NoItem
    /\ selectedEndpoints = <<>>
    /\ lastSelectedEndpoint = None
    /\ draggingItemId = NoItem
    /\ dragStartTransform = None
    /\ dragPreview = None
    /\ dragGroupIds = None
    /\ dragGroupDelta = None
    /\ snappedEndpoints = None
    /\ dragGroupStartTransforms = None
    /\ isPanning = FALSE
    /\ lastTentative = None
    /\ events = 0
    /\ lastEvent = "load"
    /\ exportProject = None
    /\ importFile = None
    /\ importResult = None
    /\ GeometryAtRest
    /\ CameraAtRest
    /\ ProjectsAtRest

\* No pointer capture is held.
Idle == draggingItemId = NoItem /\ ~isPanning

AllEndpointRefs ==
    {[itemId |-> i, connectorKey |-> ConnectorKeys[k]] :
        i \in ItemIdsOf(placedItems), k \in DOMAIN ConnectorKeys}

NewItem(componentId, x, y) ==
    [id |-> nextId, componentId |-> componentId, x |-> x, y |-> y,
     rotationDeg |-> 0, isGrounded |-> FALSE]

\* App.addComponentToLayout through handleComponentClick: place at the origin.
ComponentClick(componentId) ==
    /\ Idle
    /\ nextId <= MaxItems
    /\ placedItems' = Append(placedItems, NewItem(componentId, 0, 0))
    /\ nextId' = nextId + 1
    /\ UNCHANGED <<connections, selectionVars, dragVars>>

\* Canvas.handleDrop: place at the pointer's world point.
Drop(componentId, point) ==
    /\ Idle
    /\ nextId <= MaxItems
    /\ placedItems' = Append(placedItems, NewItem(componentId, point.x, point.y))
    /\ nextId' = nextId + 1
    /\ UNCHANGED <<connections, selectionVars, dragVars>>

\* A pointer-down that looks at the pressed item's own flag only.
ownFlagGrounded(itemId, groupIds) == isItemGrounded(itemId)

\* groupIds.some((id) => isItemGrounded(id))
groupHasGrounded(itemId, groupIds) == \E id \in groupIds : isItemGrounded(id)

handleItemPointerDown(itemId) ==
    /\ Idle
    /\ itemId \in ItemIdsOf(placedItems)
    /\ LET groupIds == getConnectedGroupIds(itemId)
           initialTransform == getItemTransform(Val(FindItem(placedItems, itemId)))
       IN  /\ selectedItemId' = itemId
           /\ selectedEndpoints' = <<>>
           /\ lastSelectedEndpoint' = None
           /\ IF groupHasGrounded(itemId, groupIds)
              THEN UNCHANGED dragVars
              ELSE /\ draggingItemId' = itemId
                   /\ dragStartTransform' = Some(initialTransform)
                   /\ dragPreview' = Some(initialTransform)
                   /\ dragGroupIds' = Some(groupIds)
                   /\ dragGroupDelta' = Some([x |-> 0, y |-> 0])
                   /\ dragGroupStartTransforms' =
                          Some([id \in groupIds \cap ItemIdsOf(placedItems) |->
                                   PoseOf(Val(FindItem(placedItems, id)))])
                   /\ UNCHANGED <<snappedEndpoints, isPanning, lastTentative>>
    /\ UNCHANGED layoutVars

\* previous.some / previous.filter on an endpoint
InSelection(eps, endpoint) == \E k \in DOMAIN eps : endpointsEqual(eps[k], endpoint)
WithoutEndpoint(eps, endpoint) == SelectSeq(eps, LAMBDA e : ~endpointsEqual(e, endpoint))

\* connection.endpoints.find((ep) => ep is not endpoint)
OtherEndpoint(connection, endpoint) ==
    IF ~endpointsEqual(connection.endpoints[1], endpoint) THEN Some(connection.endpoints[1])
    ELSE IF ~endpointsEqual(connection.endpoints[2], endpoint) THEN Some(connection.endpoints[2])
    ELSE None

\* Variant: the selection is not cut to its last two endpoints.
LastTwoUncut(eps) == eps

\* next.slice(next.length - 2) when next.length > 2
LastTwo(eps) == IF Len(eps) > 2 THEN SubSeq(eps, Len(eps) - 1, Len(eps)) ELSE eps

\* The next selection computed by updateEndpointSelection.
NextEndpointSelection(previous, endpoint, additive) ==
    LET connection == findConnectionForEndpoint(endpoint)
        other == IF connection = None THEN None ELSE OtherEndpoint(Val(connection), endpoint)
        removed == WithoutEndpoint(previous, endpoint)
        added == Append(previous, endpoint)
    IN  IF additive THEN
            IF InSelection(previous, endpoint) THEN
                IF other # None THEN WithoutEndpoint(removed, Val(other)) ELSE removed
            ELSE
                LastTwo(IF other # None /\ ~InSelection(added, Val(other))
                        THEN Append(added, Val(other)) ELSE added)
        ELSE IF connection # None THEN Val(connection).endpoints
        ELSE <<endpoint>>

updateEndpointSelection(endpoint, additive) ==
    /\ Idle
    /\ endpoint \in AllEndpointRefs
    /\ \E next \in {NextEndpointSelection(selectedEndpoints, endpoint, additive)} :
           /\ selectedEndpoints' = next
           /\ selectedItemId' =
                  IF ~additive /\ findConnectionForEndpoint(endpoint) # None
                  THEN endpoint.itemId
                  ELSE IF Len(next) = 0 THEN NoItem ELSE next[Len(next)].itemId
           /\ lastSelectedEndpoint' = IF Len(next) = 0 THEN None ELSE Some(endpoint)
    /\ UNCHANGED <<layoutVars, dragVars>>

\* Canvas.handlePointerDown on the background: pan and clear the selections.
BackgroundPointerDown ==
    /\ Idle
    /\ isPanning' = TRUE
    /\ selectedItemId' = NoItem
    /\ selectedEndpoints' = <<>>
    /\ lastSelectedEndpoint' = None
    /\ UNCHANGED <<layoutVars, draggingItemId, dragStartTransform, dragPreview,
                   dragGroupIds, dragGroupDelta, snappedEndpoints,
                   dragGroupStartTransforms, lastTentative>>

\* Variant: a pointer-move that writes the dragged item's position into the
\* layout at once.
handlePointerMoveCommitting(point) ==
    IF draggingItemId = NoItem \/ dragStartTransform = None THEN UNCHANGED canvas
    ELSE
    /\ placedItems' =
           [k \in DOMAIN placedItems |->
               IF placedItems[k].id = draggingItemId
               THEN [placedItems[k] EXCEPT !.x = point.x, !.y = point.y]
               ELSE placedItems[k]]
    /\ dragPreview' = Some([x |-> point.x, y |-> point.y,
                            rotationDeg |-> Val(dragStartTransform).rotationDeg])
    /\ lastTentative' = dragPreview'
    /\ UNCHANGED <<connections, nextId, selectionVars, draggingItemId,
                   dragStartTransform, dragGroupIds, dragGroupDelta, snappedEndpoints,
                   dragGroupStartTransforms, isPanning>>

\* The dragging branch of handlePointerMove; the pointer position is given
\* by the world position it drags the item to.
handlePointerMove(point) ==
    IF draggingItemId = NoItem \/ dragStartTransform = None THEN UNCHANGED canvas
    ELSE
    /\ \E tentative \in {[x |-> point.x, y |-> point.y,
                           rotationDeg |-> Val(dragStartTransform).rotationDeg]} :
       \E snapped \in {computeSnappedTransform(draggingItemId, tentative)} :
       \E nextTransform \in {IF snapped = None THEN tentative ELSE Val(snapped).transform} :
           /\ dragPreview' = Some(nextTransform)
           /\ snappedEndpoints' = IF snapped = None THEN None ELSE Some(Val(snapped).endpoints)
           /\ dragGroupDelta' =
                  IF /\ dragGroupStartTransforms # None
                     /\ draggingItemId \in DOMAIN Val(dragGroupStartTransforms)
                  THEN Some([x |-> nextTransform.x
                                     - Val(dragGroupStartTransforms)[draggingItemId].x,
                             y |-> nextTransform.y
                                     - Val(dragGroupStartTransforms)[draggingItemId].y])
                  ELSE None
           /\ lastTentative' = Some(tentative)
    /\ UNCHANGED <<layoutVars, selectionVars, draggingItemId, dragStartTransform,
                   dragGroupIds, dragGroupStartTransforms, isPanning>>

\* Variant: endpoints that already have a connection are accepted.
autoConnectOccupiedAllowed(movingRef, targetRef) ==
    LET movingItem == FindItem(placedItems, movingRef.itemId)
        targetItem == FindItem(placedItems, targetRef.itemId)
    IN  IF movingRef.itemId = targetRef.itemId THEN None
        ELSE IF targetRef.itemId \in getConnectedGroupIds(movingRef.itemId) THEN None
        ELSE IF isItemGrounded(movingRef.itemId) THEN None
        ELSE IF movingItem = None \/ targetItem = None THEN None
        ELSE IF WidthMismatch(
                    getConnectorByKey(geometryCache(Val(targetItem).componentId),
                                      targetRef.connectorKey),
                    getConnectorByKey(geometryCache(Val(movingItem).componentId),
                                      movingRef.connectorKey)) THEN None
        ELSE Some(ConnectedLayout(targetRef, movingRef, Val(targetItem), Val(movingItem)))

\* The layout autoConnectSnappedEndpoints installs; None when it returns false.
autoConnectSnappedEndpoints(movingRef, targetRef) ==
    LET movingItem == FindItem(placedItems, movingRef.itemId)
        targetItem == FindItem(placedItems, targetRef.itemId)
    IN  IF movingRef.itemId = targetRef.itemId THEN None
        ELSE IF targetRef.itemId \in getConnectedGroupIds(movingRef.itemId) THEN None
        ELSE IF \/ isEndpointConnected(movingRef.itemId, movingRef.connectorKey)
                \/ isEndpointConnected(targetRef.itemId, targetRef.connectorKey) THEN None
        ELSE IF isItemGrounded(movingRef.itemId) THEN None
        ELSE IF movingItem = None \/ targetItem = None THEN None
        ELSE IF WidthMismatch(
                    getConnectorByKey(geometryCache(Val(targetItem).componentId),
                                      targetRef.connectorKey),
                    getConnectorByKey(geometryCache(Val(movingItem).componentId),
                                      movingRef.connectorKey)) THEN None
        ELSE Some(ConnectedLayout(targetRef, movingRef, Val(targetItem), Val(movingItem)))

\* The placedItems of the commit without a connection.
DragCommitItems ==
    LET hasGroupDelta ==
            /\ dragGroupDelta # None
            /\ (Abs(Val(dragGroupDelta).x) > 0 \/ Abs(Val(dragGroupDelta).y) > 0)
    IN  IF dragGroupStartTransforms # None /\ dragGroupDelta # None /\ hasGroupDelta THEN
            [k \in DOMAIN placedItems |->
                LET item == placedItems[k]
                    groupStarts == Val(dragGroupStartTransforms)
                IN  IF item.id \notin DOMAIN groupStarts THEN item
                    ELSE [item EXCEPT !.x = groupStarts[item.id].x + Val(dragGroupDelta).x,
                                      !.y = groupStarts[item.id].y + Val(dragGroupDelta).y]]
        ELSE IF dragPreview # None THEN
            [k \in DOMAIN placedItems |->
                LET item == placedItems[k]
                IN  IF item.id = draggingItemId
                    THEN [item EXCEPT !.x = Val(dragPreview).x,
                                      !.y = Val(dragPreview).y,
                                      !.rotationDeg = normalizeAngle(Val(dragPreview).rotationDeg)]
                    ELSE item]
        ELSE placedItems

\* Variant: the reset forgets to clear the snapped endpoints and the group.
ResetDragKeepsSnap ==
    /\ draggingItemId' = NoItem
    /\ dragStartTransform' = None
    /\ dragPreview' = None
    /\ UNCHANGED <<dragGroupIds, dragGroupDelta, snappedEndpoints>>
    /\ dragGroupStartTransforms' = None
    /\ isPanning' = FALSE
    /\ lastTentative' = None

ResetDrag ==
    /\ draggingItemId' = NoItem
    /\ dragStartTransform' = None
    /\ dragPreview' = None
    /\ dragGroupIds' = None
    /\ dragGroupDelta' = None
    /\ snappedEndpoints' = None
    /\ dragGroupStartTransforms' = None
    /\ isPanning' = FALSE
    /\ lastTentative' = None

\* The handler registered for both 'pointerup' and 'pointerleave'.
handlePointerUp ==
    /\ IF draggingItemId # NoItem
       THEN \E connected \in {IF snappedEndpoints = None THEN None
                                ELSE autoConnectSnappedEndpoints(Val(snappedEndpoints).moving,
                                                                 Val(snappedEndpoints).target)} :
                IF connected # None
                THEN /\ placedItems' = Val(connected).placedItems
                     /\ connections' = Val(connected).connections
                ELSE /\ placedItems' = DragCommitItems
                     /\ connections' = connections
       ELSE UNCHANGED <<placedItems, connections>>
    /\ ResetDrag
    /\ UNCHANGED <<nextId, selectionVars>>

\* window.addEventListener('pointerup', handlePointerUp)
PointerUp == handlePointerUp
\* window.addEventListener('pointerleave', handlePointerUp)
PointerLeave == handlePointerUp

\* The new pose rotateSelected gives the selected item: about the selected
\* endpoint of the item when there is one, else about the item's origin.
RotatedPose(currentItem, deltaDeg) ==
    LET newRotationDeg == normalizeAngle(currentItem.rotationDeg + deltaDeg)
        S == {k \in DOMAIN selectedEndpoints : selectedEndpoints[k].itemId = selectedItemId}
    IN  IF S = {} THEN
            [x |-> currentItem.x, y |-> currentItem.y, rotationDeg |-> newRotationDeg]
        ELSE
            LET pivotEndpoint == selectedEndpoints[CHOOSE k \in S : \A j \in S : k <= j]
                localConnector == getConnectorByKey(geometryCache(currentItem.componentId),
                                                    pivotEndpoint.connectorKey)
                pivotWorld == transformConnector(localConnector, PoseOf(currentItem))
                rotatedLocal == rotatePointLocal(localConnector.xMm, localConnector.yMm,
                                                 newRotationDeg)
            IN  [x |-> pivotWorld.xMm - rotatedLocal.x,
                 y |-> pivotWorld.yMm - rotatedLocal.y,
                 rotationDeg |-> newRotationDeg]

\* Variant: an item with connections is not held back.
RotateBlockedGroundedOnly ==
    \/ selectedItemId = NoItem
    \/ isItemGrounded(selectedItemId)
    \/ FindItem(placedItems, selectedItemId) = None

\* The early returns of rotateSelected.
RotateBlocked ==
    \/ selectedItemId = NoItem
    \/ isItemConnected(selectedItemId)
    \/ isItemGrounded(selectedItemId)
    \/ FindItem(placedItems, selectedItemId) = None

rotateSelected(deltaDeg) ==
    IF RotateBlocked THEN UNCHANGED canvas
    ELSE \E pose \in {RotatedPose(Val(FindItem(placedItems, selectedItemId)), deltaDeg)} :
             /\ placedItems' =
                    [k \in DOMAIN placedItems |->
                        IF placedItems[k].id = selectedItemId
                        THEN [placedItems[k] EXCEPT !.x = pose.x, !.y = pose.y,
                                                    !.rotationDeg = pose.rotationDeg]
                        ELSE placedItems[k]]
             /\ dragPreview' =
                    IF dragPreview # None /\ draggingItemId = selectedItemId
                    THEN Some(pose) ELSE dragPreview
             /\ UNCHANGED <<connections, nextId, selectionVars, draggingItemId,
                            dragStartTransform, dragGroupIds, dragGroupDelta,
                            snappedEndpoints, dragGroupStartTransforms, isPanning,
                            lastTentative>>

\* Variant: only the first endpoint of each connection is looked at.
filterConnectionsFirstOnly(conns, itemId) ==
    SelectSeq(conns, LAMBDA connection : connection.endpoints[1].itemId # itemId)

\* Variant: the connections of the whole connected group of the item go.
filterConnectionsOfGroup(conns, itemId) ==
    SelectSeq(conns, LAMBDA connection :
        \A e \in 1..2 : connection.endpoints[e].itemId \notin getConnectedGroupIds(itemId))

\* The connections deleteSelectedItem keeps.
filterConnections(conns, itemId) ==
    SelectSeq(conns, LAMBDA connection :
        \A e \in 1..2 : connection.endpoints[e].itemId # itemId)

deleteSelectedItem ==
    IF selectedItemId = NoItem THEN UNCHANGED canvas
    ELSE /\ placedItems' = SelectSeq(placedItems, LAMBDA item : item.id # selectedItemId)
         /\ connections' = filterConnections(connections, selectedItemId)
         /\ selectedItemId' = NoItem
         /\ selectedEndpoints' = <<>>
         /\ lastSelectedEndpoint' = None
         /\ UNCHANGED <<nextId, dragVars>>

\* Escape
clearSelections ==
    /\ selectedItemId' = NoItem
    /\ selectedEndpoints' = <<>>
    /\ lastSelectedEndpoint' = None
    /\ UNCHANGED <<layoutVars, dragVars>>

\* The fixed and the moving endpoint connectSelectedEndpoints decides on.
ConnectRoles ==
    LET firstRef == selectedEndpoints[1]
        secondRef == selectedEndpoints[2]
        firstGrounded == isItemGrounded(firstRef.itemId)
        secondGrounded == isItemGrounded(secondRef.itemId)
        firstGroup == getConnectedGroupIds(firstRef.itemId)
        secondGroup == getConnectedGroupIds(secondRef.itemId)
        selectedRef == IF firstRef.itemId = selectedItemId THEN firstRef
                       ELSE IF secondRef.itemId = selectedItemId THEN secondRef
                       ELSE firstRef
    IN  IF firstGrounded /\ ~secondGrounded THEN [fixed |-> firstRef, moving |-> secondRef]
        ELSE IF ~firstGrounded /\ secondGrounded THEN [fixed |-> secondRef, moving |-> firstRef]
        ELSE IF Cardinality(firstGroup) > Cardinality(secondGroup)
             THEN [fixed |-> firstRef, moving |-> secondRef]
        ELSE IF Cardinality(secondGroup) > Cardinality(firstGroup)
             THEN [fixed |-> secondRef, moving |-> firstRef]
        ELSE [fixed |-> IF selectedRef = firstRef THEN secondRef ELSE firstRef,
              moving |-> selectedRef]

\* Variant: two endpoints of one item are accepted.
ConnectRejectedSameItemAllowed(roles) ==
    \/ isItemGrounded(roles.moving.itemId)
    \/ FindItem(placedItems, roles.fixed.itemId) = None
    \/ FindItem(placedItems, roles.moving.itemId) = None
    \/ isEndpointConnected(roles.fixed.itemId, roles.fixed.connectorKey)
    \/ isEndpointConnected(roles.moving.itemId, roles.moving.connectorKey)

\* Variant: endpoints that already have a connection are accepted.
ConnectRejectedOccupiedAllowed(roles) ==
    \/ selectedEndpoints[1].itemId = selectedEndpoints[2].itemId
    \/ roles.moving.itemId = roles.fixed.itemId
    \/ isItemGrounded(roles.moving.itemId)
    \/ FindItem(placedItems, roles.fixed.itemId) = None
    \/ FindItem(placedItems, roles.moving.itemId) = None

\* The early returns of connectSelectedEndpoints once two endpoints are
\* selected and the roles are decided.
ConnectRejected(roles) ==
    \/ selectedEndpoints[1].itemId = selectedEndpoints[2].itemId
    \/ roles.moving.itemId = roles.fixed.itemId
    \/ isItemGrounded(roles.moving.itemId)
    \/ FindItem(placedItems, roles.fixed.itemId) = None
    \/ FindItem(placedItems, roles.moving.itemId) = None
    \/ isEndpointConnected(roles.fixed.itemId, roles.fixed.connectorKey)
    \/ isEndpointConnected(roles.moving.itemId, roles.moving.connectorKey)
    \/ WidthMismatch(
           getConnectorByKey(
               geometryCache(Val(FindItem(placedItems, roles.fixed.itemId)).componentId),
               roles.fixed.connectorKey),
           getConnectorByKey(
               geometryCache(Val(FindItem(placedItems, roles.moving.itemId)).componentId),
               roles.moving.connectorKey))

connectSelectedEndpoints ==
    /\ Idle
    /\ IF Len(selectedEndpoints) # 2 THEN UNCHANGED canvas
       ELSE \E roles \in {ConnectRoles} :
            IF ConnectRejected(roles) THEN UNCHANGED canvas
            ELSE \E next \in {ConnectedLayout(
                                  roles.fixed, roles.moving,
                                  Val(FindItem(placedItems, roles.fixed.itemId)),
                                  Val(FindItem(placedItems, roles.moving.itemId)))} :
                     /\ placedItems' = next.placedItems
                     /\ connections' = next.connections
                     /\ UNCHANGED <<nextId, selectionVars, dragVars>>

\* connections.findIndex(connectionMatchesEndpoints); 0 for -1.
MatchingConnectionIndex ==
    LET S == {k \in DOMAIN connections :
                 connectionMatchesEndpoints(connections[k], selectedEndpoints)}
    IN  IF S = {} THEN 0 ELSE CHOOSE k \in S : \A j \in S : k <= j

disconnectSelectedEndpoints ==
    /\ Idle
    /\ IF Len(selectedEndpoints) # 2 \/ MatchingConnectionIndex = 0 THEN UNCHANGED canvas
       ELSE /\ connections' =
                   [k \in 1..(Len(connections) - 1) |->
                       IF k < MatchingConnectionIndex THEN connections[k]
                       ELSE connections[k + 1]]
            /\ UNCHANGED <<placedItems, nextId, selectionVars, dragVars>>

\* App.handleToggleGrounded
handleToggleGrounded ==
    /\ Idle
    /\ IF selectedItemId = NoItem THEN UNCHANGED canvas
       ELSE /\ placedItems' =
                   [k \in DOMAIN placedItems |->
                       IF placedItems[k].id = selectedItemId
                       THEN [placedItems[k] EXCEPT !.isGrounded = ~placedItems[k].isGrounded]
                       ELSE placedItems[k]]
            /\ UNCHANGED <<connections, nextId, selectionVars, dragVars>>

\* App.handleResetLayout, then the layout effect's ensureSelectionIsValid.
handleResetLayout ==
    /\ Idle
    /\ placedItems' = <<>>
    /\ connections' = <<>>
    /\ selectedItemId' = ValidItemSelection(selectedItemId, <<>>)
    /\ selectedEndpoints' = ValidEndpointSelection(selectedEndpoints, <<>>)
    /\ lastSelectedEndpoint' = None
    /\ UNCHANGED <<nextId, dragVars>>

\* One more input event of the session.
Tick(event) ==
    /\ events < MaxEvents
    /\ events' = events + 1
    /\ lastEvent' = event
    /\ UNCHANGED <<serializationVars, geometryVars, cameraVars, projectsVars>>

Next ==
    \/ \E c \in ComponentIds : Tick("componentClick") /\ ComponentClick(c)
    \/ \E c \in ComponentIds, p \in DropPoints : Tick("drop") /\ Drop(c, p)
    \/ \E i \in ItemIdsOf(placedItems) : Tick("itemPointerDown") /\ handleItemPointerDown(i)
    \/ \E ep \in AllEndpointRefs, additive \in BOOLEAN :
           /\ Tick(IF additive THEN "endpointShiftClick" ELSE "endpointClick")
           /\ updateEndpointSelection(ep, additive)
    \/ Tick("backgroundPointerDown") /\ BackgroundPointerDown
    \/ \E p \in TentativePoints : Tick("pointermove") /\ handlePointerMove(p)
    \/ Tick("pointerup") /\ PointerUp
    \/ Tick("pointerleave") /\ PointerLeave
    \/ \E d \in RotateDeltas : Tick("rotate") /\ rotateSelected(d)
    \/ Tick("delete") /\ deleteSelectedItem
    \/ Tick("escape") /\ clearSelections
    \/ Tick("connect") /\ connectSelectedEndpoints
    \/ Tick("disconnect") /\ disconnectSelectedEndpoints
    \/ Tick("toggleGrounded") /\ handleToggleGrounded
    \/ Tick("resetLayout") /\ handleResetLayout

Spec == Init /\ [][Next]_vars

\* ------------------------------------------------------ serialization
\* JSON values.  A numeric field of a parsed file is Some(n) when it holds a
\* finite number and None when it holds anything else (null, a string, 1e999,
\* or nothing); an optional field is Some(v) or None.  A layout in memory has
\* plain numbers.
EXPORT_VERSION == 1

TRACK_COMPONENT_TYPES == {"straight", "curve", "switch", "other"}

isTrackComponentType(value) == value \in TRACK_COMPONENT_TYPES

isFiniteNumber(value) == value # None

\* array.map(validate).filter(Boolean)
Validated(options) ==
    [k \in DOMAIN SelectSeq(options, LAMBDA o : o # None) |->
        Val(SelectSeq(options, LAMBDA o : o # None)[k])]

\* color is not copied.
validateTrackComponent(raw) ==
    IF ~isTrackComponentType(raw.type) THEN None
    ELSE Some([id |-> raw.id, label |-> raw.label, type |-> raw.type,
               lengthMm |-> IF isFiniteNumber(raw.lengthMm) THEN raw.lengthMm ELSE None,
               color |-> None])

SystemWith(raw, components) ==
    IF Len(components) = 0 THEN None
    ELSE Some([id |-> raw.id, name |-> raw.name, ratio |-> Val(raw.ratio),
               components |-> components])

\* ratio stands for the four numeric fields of a track system.
validateTrackSystem(raw) ==
    IF ~isFiniteNumber(raw.ratio) THEN None
    ELSE SystemWith(raw, Validated([k \in DOMAIN raw.components |->
                                       validateTrackComponent(raw.components[k])]))

validatePlacedItem(raw) ==
    IF ~isFiniteNumber(raw.x) \/ ~isFiniteNumber(raw.y) \/ ~isFiniteNumber(raw.rotationDeg)
    THEN None
    ELSE Some([id |-> raw.id, trackSystemId |-> raw.trackSystemId,
               componentId |-> raw.componentId,
               x |-> Val(raw.x), y |-> Val(raw.y), rotationDeg |-> Val(raw.rotationDeg),
               isGrounded |-> raw.isGrounded])

\* Endpoints of a parsed file are always two refs with string fields here.
validateConnection(raw) ==
    IF Len(raw.endpoints) # 2 THEN None ELSE Some([endpoints |-> raw.endpoints])

\* x and width stand for the numeric fields of a shape.
validateShape(raw) ==
    IF raw.type \notin {"rectangle", "circle", "text", "dimension"} THEN None
    ELSE IF ~isFiniteNumber(raw.x) \/ ~isFiniteNumber(raw.width) THEN None
    ELSE Some([id |-> raw.id, type |-> raw.type, x |-> Val(raw.x), width |-> Val(raw.width)])

\* trackSystemComponentMap.get(item.trackSystemId)?.has(item.componentId)
ComponentKnown(trackSystems, item) ==
    \E s \in DOMAIN trackSystems :
        /\ trackSystems[s].id = item.trackSystemId
        /\ \E c \in DOMAIN trackSystems[s].components :
               trackSystems[s].components[c].id = item.componentId

hasDanglingItems(trackSystems, items) ==
    \E k \in DOMAIN items : ~ComponentKnown(trackSystems, items[k])

\* The connections whose two endpoints are on validated placed items.
KeptConnections(rawConnections, items) ==
    SelectSeq(Validated([k \in DOMAIN rawConnections |->
                            validateConnection(rawConnections[k])]),
              LAMBDA connection :
                  \A e \in 1..2 : connection.endpoints[e].itemId \in ItemIdsOf(items))

ActiveSystemOf(raw, trackSystems) ==
    IF /\ raw.activeTrackSystemId # None
       /\ \E s \in DOMAIN trackSystems : trackSystems[s].id = Val(raw.activeTrackSystemId)
    THEN raw.activeTrackSystemId
    ELSE Some(trackSystems[1].id)

\* validateLayout once the track systems and the placed items are validated.
LayoutOf(raw, trackSystems, items) ==
    IF Len(trackSystems) = 0
    THEN [ok |-> FALSE, error |-> "No track systems found in the import."]
    ELSE IF hasDanglingItems(trackSystems, items)
    THEN [ok |-> FALSE,
          error |-> "Placed items reference missing track systems or components."]
    ELSE [ok |-> TRUE,
          layout |-> [activeTrackSystemId |-> ActiveSystemOf(raw, trackSystems),
                      trackSystems |-> trackSystems,
                      placedItems |-> items,
                      connections |-> KeptConnections(raw.connections, items),
                      shapes |-> Validated([k \in DOMAIN raw.shapes |->
                                               validateShape(raw.shapes[k])])]]

ValidatedLayout(raw) ==
    LayoutOf(raw,
             Validated([k \in DOMAIN raw.trackSystems |->
                           validateTrackSystem(raw.trackSystems[k])]),
             Validated([k \in DOMAIN raw.placedItems |->
                           validatePlacedItem(raw.placedItems[k])]))

\* candidate: the layout field, None when it is not an object.
validateLayout(candidate) ==
    IF candidate = None
    THEN [ok |-> FALSE, error |-> "Layout is missing from the file."]
    ELSE ValidatedLayout(Val(candidate))

ProjectOf(raw, layoutResult) ==
    IF ~layoutResult.ok THEN layoutResult
    ELSE [ok |-> TRUE,
          project |-> [name |-> IF raw.name = "" THEN "Imported Project" ELSE raw.name,
                       layout |-> layoutResult.layout]]

\* candidate: a JSON value with its kind, its name ("" when it has none) and
\* its layout field.  An array is an object to typeof.
validateProject(candidate) ==
    IF candidate.kind \notin {"object", "array"}
    THEN [ok |-> FALSE, error |-> "Project payload is missing."]
    ELSE ProjectOf(candidate, validateLayout(candidate.layout))

\* payload.project ?? parsed
RawProject(payload) ==
    IF payload.project # None
    THEN [kind |-> "object", name |-> Val(payload.project).name,
          layout |-> Val(payload.project).layout]
    ELSE [kind |-> payload.kind, name |-> "", layout |-> payload.layout]

\* Reading a property of null throws a TypeError.
TypeError == [threw |-> "TypeError"]

\* json: the text of the file, given by what JSON.parse makes of it: kind
\* "invalid" when it throws, else the kind of the value with the version,
\* project and layout fields of an object.
parseProjectImport(json) ==
    IF json.kind = "invalid"
    THEN [ok |-> FALSE, error |-> "File is not valid JSON."]
    ELSE IF json.version # None /\ Val(json.version) # EXPORT_VERSION
    THEN [ok |-> FALSE, error |-> "Unsupported export version."]
    ELSE IF json.kind = "null"
    THEN TypeError
    ELSE validateProject(RawProject(json))

\* JSON.stringify of a number: a finite number is written as it is.
JsonNumber(n) == Some(n)

JsonItem(item) ==
    [id |-> item.id, trackSystemId |-> item.trackSystemId, componentId |-> item.componentId,
     x |-> JsonNumber(item.x), y |-> JsonNumber(item.y),
     rotationDeg |-> JsonNumber(item.rotationDeg), isGrounded |-> item.isGrounded]

JsonSystem(system) ==
    [id |-> system.id, name |-> system.name, ratio |-> JsonNumber(system.ratio),
     components |-> system.components]

JsonShape(shape) ==
    [id |-> shape.id, type |-> shape.type, x |-> JsonNumber(shape.x),
     width |-> JsonNumber(shape.width)]

\* cloneLayoutState and JSON.stringify: every field that is set is written.
JsonLayout(layout) ==
    [activeTrackSystemId |-> layout.activeTrackSystemId,
     trackSystems |-> [k \in DOMAIN layout.trackSystems |-> JsonSystem(layout.trackSystems[k])],
     placedItems |-> [k \in DOMAIN layout.placedItems |-> JsonItem(layout.placedItems[k])],
     connections |-> layout.connections,
     shapes |-> [k \in DOMAIN layout.shapes |-> JsonShape(layout.shapes[k])]]

\* The export file of a project, as JSON.parse reads it back.
buildProjectExport(project) ==
    [kind |-> "object", version |-> Some(EXPORT_VERSION),
     project |-> Some([name |-> project.name, layout |-> Some(JsonLayout(project.layout))]),
     layout |-> None]

\* Components of the files and projects.
Component(id, type, lengthMm, color) ==
    [id |-> id, label |-> id, type |-> type, lengthMm |-> Some(lengthMm), color |-> color]

ComponentLists ==
    { <<Component("G20", "straight", 20, None)>>,
      <<Component("G20", "straight", 20, None), Component("G15", "straight", 15, Some("red"))>>,
      <<Component("G20", "straight", 20, None), Component("K30", "crossing", 30, None)>> }

\* Placed items of a file: one that varies, and a second plain one.
FileItems ==
    {<<>>}
    \cup {<<[id |-> 1, trackSystemId |-> "A", componentId |-> c, x |-> x, y |-> Some(0),
             rotationDeg |-> Some(0), isGrounded |-> g]>> \o rest :
            c \in {"G20", "G15", "K30"}, x \in {Some(0), None}, g \in {None, Some(TRUE)},
            rest \in {<<>>, <<[id |-> 2, trackSystemId |-> "A", componentId |-> "G20",
                               x |-> Some(20), y |-> Some(0), rotationDeg |-> Some(0),
                               isGrounded |-> None]>>}}

FileConnections ==
    { <<>>,
      <<[endpoints |-> <<Ref(1, "end"), Ref(2, "start")>>]>>,
      <<[endpoints |-> <<Ref(2, "end"), Ref(9, "start")>>]>>,
      <<[endpoints |-> <<Ref(1, "start"), Ref(1, "end")>>]>>,
      <<[endpoints |-> <<Ref(1, "end"), Ref(2, "start")>>],
        [endpoints |-> <<Ref(1, "end"), Ref(2, "end")>>]>> }

FileShapes == { <<>>, <<[id |-> "s1", type |-> "circle", x |-> Some(5), width |-> Some(10)]>> }

FileSystems ==
    {<<>>} \cup {<<[id |-> "A", name |-> "A", ratio |-> r, components |-> cs]>> :
                    r \in {Some(87), None}, cs \in ComponentLists}

\* The files with a project and a layout.
ProjectFiles ==
    {[kind |-> "object", version |-> v,
      project |-> Some([name |-> "P",
                        layout |-> Some([activeTrackSystemId |-> Some("A"),
                                         trackSystems |-> ts, placedItems |-> items,
                                         connections |-> conns, shapes |-> shapes])]),
      layout |-> None] :
        v \in {Some(EXPORT_VERSION), Some(EXPORT_VERSION + 1)}, ts \in FileSystems,
        items \in FileItems, conns \in FileConnections, shapes \in FileShapes}

\* A layout with one track system and nothing placed.
BareLayout ==
    [activeTrackSystemId |-> Some("A"),
     trackSystems |-> <<[id |-> "A", name |-> "A", ratio |-> Some(87),
                         components |-> <<Component("G20", "straight", 20, None)>>]>>,
     placedItems |-> <<>>, connections |-> <<>>, shapes |-> <<>>]

\* The files that are no export: text that is not JSON, the JSON values null,
\* number, string and array, and objects without a project or without a
\* layout, with and without a version.
OtherFiles ==
    {[kind |-> k, version |-> None, project |-> None, layout |-> None] :
        k \in {"invalid", "null", "number", "string", "array"}}
    \cup {[kind |-> "object", version |-> v, project |-> p, layout |-> l] :
             v \in {None, Some(EXPORT_VERSION), Some(EXPORT_VERSION + 1)},
             p \in {None, Some([name |-> "P", layout |-> None])},
             l \in {None, Some(BareLayout)}}

\* The files parseProjectImport is given.
ImportFiles == ProjectFiles \cup OtherFiles

\* A layout in memory is valid: it has a track system, its placed items are of
\* components of their track system, and its connections join placed items.
LayoutIsValid(layout) ==
    /\ Len(layout.trackSystems) > 0
    /\ ~hasDanglingItems(layout.trackSystems, layout.placedItems)
    /\ \A k \in DOMAIN layout.connections, e \in 1..2 :
           layout.connections[k].endpoints[e].itemId \in ItemIdsOf(layout.placedItems)

MemoryItem(id, componentId, x, isGrounded) ==
    [id |-> id, trackSystemId |-> "A", componentId |-> componentId, x |-> x, y |-> 0,
     rotationDeg |-> 0, isGrounded |-> isGrounded]

\* The projects buildProjectExport is given: the valid ones of a small family.
ExportProjects ==
    {p \in {[name |-> "P",
             layout |-> [activeTrackSystemId |-> Some("A"),
                         trackSystems |-> <<[id |-> "A", name |-> "A", ratio |-> 87,
                                             components |-> cs]>>,
                         placedItems |-> items, connections |-> conns,
                         shapes |-> shapes]] :
                cs \in ComponentLists,
                items \in {<<>>} \cup
                          {<<MemoryItem(1, c, 0, g), MemoryItem(2, "G20", 20, None)>> :
                              c \in {"G20", "G15", "K30"}, g \in {None, Some(TRUE)}},
                conns \in {<<>>, <<[endpoints |-> <<Ref(1, "end"), Ref(2, "start")>>]>>},
                shapes \in {<<>>, <<[id |-> "s1", type |-> "circle", x |-> 5, width |-> 10]>>}} :
        LayoutIsValid(p.layout)}

\* The canvas with an empty layout and nothing selected or dragged.
CanvasAtRest ==
    /\ placedItems = <<>>
    /\ connections = <<>>
    /\ nextId = 1
    /\ selectedItemId = NoItem
    /\ selectedEndpoints = <<>>
    /\ lastSelectedEndpoint = None
    /\ draggingItemId = NoItem
    /\ dragStartTransform = None
    /\ dragPreview = None
    /\ dragGroupIds = None
    /\ dragGroupDelta = None
    /\ snappedEndpoints = None
    /\ dragGroupStartTransforms = None
    /\ isPanning = FALSE
    /\ lastTentative = None
    /\ events = 0
    /\ lastEvent = "load"

\* The canvas is idle while a file is exported or imported.
SerializationInit ==
    /\ CanvasAtRest
    /\ GeometryAtRest
    /\ CameraAtRest
    /\ ProjectsAtRest
    /\ importResult = None
    /\ \/ exportProject = None /\ \E file \in ImportFiles : importFile = Some(file)
       \/ importFile = None /\ \E project \in ExportProjects : exportProject = Some(project)

\* Export: the file of the project, read back by JSON.parse.
Export ==
    /\ exportProject # None
    /\ importFile = None
    /\ importFile' = Some(buildProjectExport(Val(exportProject)))
    /\ UNCHANGED <<canvas, events, lastEvent, exportProject, importResult,
                   geometryVars, cameraVars, projectsVars>>

\* Import of the file.
Import ==
    /\ importFile # None
    /\ importResult = None
    /\ importResult' = Some(parseProjectImport(Val(importFile)))
    /\ UNCHANGED <<canvas, events, lastEvent, exportProject, importFile,
                   geometryVars, cameraVars, projectsVars>>

SerializationNext == Export \/ Import

SerializationSpec == SerializationInit /\ [][SerializationNext]_vars

\* ------------------------------------------------- geometry provider
\* A meta record with the numeric fields it has.
Meta(variant, direction, num) == [variant |-> variant, direction |-> direction, num |-> num]

\* The record without one of its fields.
Without(num, field) == [f \in DOMAIN num \ {field} |-> num[f]]

\* Switch metas with all the fields of their variant.
CompleteSwitchMetas ==
    { Meta("simple-switch", "left",
           [straightLengthMm |-> 239, branchRadiusMm |-> 908, branchAngleDeg |-> 15]),
      Meta("simple-switch", "right",
           [straightLengthMm |-> 240, branchRadiusMm |-> 500, branchAngleDeg |-> 30]),
      Meta("curved-switch", "right",
           [innerRadiusMm |-> 400, outerRadiusMm |-> 500, angleDeg |-> 30]),
      Meta("three-way", "",
           [straightLengthMm |-> 240, branchRadiusMm |-> 500, branchAngleDeg |-> 15,
            branchOffsetMm |-> 20]),
      Meta("y-switch", "",
           [stubLengthMm |-> 20, branchRadiusMm |-> 500, branchAngleDeg |-> 30]),
      Meta("double-slip", "",
           [lengthMm |-> 240, crossingAngleDeg |-> 15, slipRadiusMm |-> 500]) }

\* The metas of a set, and each of them with one numeric field missing.
WithMissingFields(metas) ==
    metas \cup UNION {{Meta(m.variant, m.direction, Without(m.num, field)) :
                          field \in DOMAIN m.num} : m \in metas}

SwitchMetas == WithMissingFields(CompleteSwitchMetas)

CrossingMetas ==
    WithMissingFields({Meta("", "", [lengthMm |-> 240, crossingAngleDeg |-> 30])})

\* The catalog definitions getComponentGeometry is given.
Definitions ==
    {Definition("G", "straight", l, None, None, FALSE, None) : l \in {None, Some(20)}}
    \cup {Definition("R", "curve", None, r, a, cw, None) :
             r \in {None, Some(500)}, a \in {None, Some(30)}, cw \in BOOLEAN}
    \cup {Definition(id, "switch", l, None, None, FALSE, m) :
             id \in {"WL", "WR"}, l \in {None, Some(240)},
             m \in {None} \cup {Some(meta) : meta \in SwitchMetas}}
    \cup {Definition("K30", "crossing", l, None, None, FALSE, m) :
             l \in {None, Some(240)}, m \in {None} \cup {Some(meta) : meta \in CrossingMetas}}
    \cup {Definition("X", t, l, None, None, FALSE, None) :
             t \in {"other", "turntable"}, l \in {None, Some(25)}}

\* The integer degree values normalizeAngle is given.
MaxDeg == 1080
Degrees == -MaxDeg..MaxDeg

\* Either a definition or an angle is at hand.
GeometryInit ==
    /\ CanvasAtRest
    /\ CameraAtRest
    /\ ProjectsAtRest
    /\ exportProject = None
    /\ importFile = None
    /\ importResult = None
    /\ geometry = None
    /\ diagnostics = <<>>
    /\ normalized = None
    /\ \/ /\ deg = 0
          /\ isDev \in BOOLEAN
          /\ \E def \in Definitions : definition = Some(def)
       \/ /\ definition = None
          /\ isDev = FALSE
          /\ deg \in Degrees

\* getComponentGeometry(definition); warnMissing writes in a DEV build only.
GetGeometry ==
    /\ definition # None
    /\ geometry = None
    /\ geometry' = Some(getComponentGeometry(Val(definition)))
    /\ diagnostics' = IF isDev THEN MissingWarnings(Val(definition)) ELSE <<>>
    /\ UNCHANGED <<canvas, events, lastEvent, serializationVars, cameraVars, projectsVars,
                   definition, isDev, deg, normalized>>

\* normalizeAngle(deg)
Normalize ==
    /\ definition = None
    /\ normalized = None
    /\ normalized' = Some(normalizeAngle(deg))
    /\ UNCHANGED <<canvas, events, lastEvent, serializationVars, cameraVars, projectsVars,
                   definition, isDev, geometry, diagnostics, deg>>

GeometryNext == GetGeometry \/ Normalize

GeometrySpec == GeometryInit /\ [][GeometryNext]_vars

\* --------------------------------------------------------------- camera
MaxWheel == 12

\* Variant: Math.max(0.35, scale), no upper limit.
ClampScaleBelowOnly(scale) ==
    IF scale < (35 * ScaleUnit) \div 100 THEN (35 * ScaleUnit) \div 100 ELSE scale

\* Math.min(4, Math.max(0.35, scale))
ClampScale(scale) ==
    IF scale < (35 * ScaleUnit) \div 100 THEN (35 * ScaleUnit) \div 100
    ELSE IF scale > 4 * ScaleUnit THEN 4 * ScaleUnit
    ELSE scale

\* prev.scale * scaleFactor, to the millionth; percent: 85 or 115.
ScaleBy(scale, percent) == (scale * percent + 50) \div 100

CameraInit ==
    /\ CanvasAtRest
    /\ GeometryAtRest
    /\ CameraAtRest
    /\ ProjectsAtRest
    /\ exportProject = None
    /\ importFile = None
    /\ importResult = None

\* handleWheel with the pointer at the top left corner of the canvas, which
\* keeps the origin of the view; deltaY > 0 zooms out.
handleWheel(deltaY) ==
    /\ wheelEvents < MaxWheel
    /\ wheelEvents' = wheelEvents + 1
    /\ camera' = [camera EXCEPT
                     !.scale = ClampScale(ScaleBy(camera.scale,
                                                  IF deltaY > 0 THEN 85 ELSE 115))]
    /\ UNCHANGED <<canvas, events, lastEvent, serializationVars, geometryVars,
                   projectsVars>>

CameraNext == \E deltaY \in {-100, 100} : handleWheel(deltaY)

CameraSpec == CameraInit /\ [][CameraNext]_vars

\* ------------------------------------------------------ projects state
\* useProjectsState: the list of projects, the active project and the undo
\* and redo stacks of each project.  A layout is named by a number; every
\* updater gives a layout that has not been seen before.  A stack has its
\* newest entry first.
MAX_HISTORY_ENTRIES == 60

MaxOps == 4
MaxProjects == 3

\* array.slice(0, n)
Take(stack, n) == SubSeq(stack, 1, IF Len(stack) < n THEN Len(stack) ELSE n)

ProjectIds == {projects[k].id : k \in DOMAIN projects}

\* projects.find((project) => project.id === activeProjectId) ?? null
activeProject ==
    LET S == {k \in DOMAIN projects : projects[k].id = activeProjectId}
    IN  IF S = {} THEN None ELSE Some(projects[CHOOSE k \in S : \A j \in S : k <= j])

\* historyMap[projectId], undefined as None
HistoryOf(map, projectId) ==
    IF projectId \in DOMAIN map THEN Some(map[projectId]) ELSE None

\* { ...previous, [projectId]: entry }
WithHistory(map, projectId, entry) ==
    [id \in DOMAIN map \cup {projectId} |-> IF id = projectId THEN entry ELSE map[id]]

\* The active project's layout replaced, every other project as it is.
WithActiveLayout(layout) ==
    [k \in DOMAIN projects |->
        IF projects[k].id = activeProjectId
        THEN [projects[k] EXCEPT !.layout = layout]
        ELSE projects[k]]

\* Variant: the undo stack is not cut to MAX_HISTORY_ENTRIES.
pushHistoryEntryUncut(map, projectId, layout) ==
    WithHistory(map, projectId,
        [undoStack |-> <<layout>> \o
                           (IF projectId \in DOMAIN map THEN map[projectId].undoStack
                            ELSE <<>>),
         redoStack |-> <<>>])

\* Variant: the redo stack is kept.
pushHistoryEntryKeepsRedo(map, projectId, layout) ==
    WithHistory(map, projectId,
        [undoStack |-> Take(<<layout>> \o
                                (IF projectId \in DOMAIN map THEN map[projectId].undoStack
                                 ELSE <<>>),
                            MAX_HISTORY_ENTRIES),
         redoStack |-> IF projectId \in DOMAIN map THEN map[projectId].redoStack
                       ELSE <<>>])

\* The historyMap after pushHistoryEntry(projectId, layout).
pushHistoryEntry(map, projectId, layout) ==
    WithHistory(map, projectId,
        [undoStack |-> Take(<<layout>> \o
                                (IF projectId \in DOMAIN map THEN map[projectId].undoStack
                                 ELSE <<>>),
                            MAX_HISTORY_ENTRIES),
         redoStack |-> <<>>])

\* One more operation on the projects state; op names it.
Op(op) ==
    /\ ops < MaxOps
    /\ ops' = ops + 1
    /\ lastOp' = op
    /\ prevOp' = lastOp
    /\ lastLayout' = IF activeProject = None THEN 0 ELSE Val(activeProject).layout
    /\ UNCHANGED <<canvas, events, lastEvent, serializationVars, geometryVars, cameraVars>>

\* updateActiveProjectLayout(updater, { recordHistory }).  projectId and
\* recordedLayout are assigned inside the updater given to setProjectsState
\* and read right after the call: React runs the updater at once when the
\* component has no update pending and at the next render otherwise, so
\* ranAtOnce is the scheduler's choice.  The updater itself is applied in
\* both cases.
updateActiveProjectLayout(recordHistory, ranAtOnce) ==
    /\ nextLayout' = nextLayout + 1
    /\ IF activeProjectId = NoProject
       THEN UNCHANGED <<projects, historyMap>>
       ELSE /\ projects' = WithActiveLayout(nextLayout)
            /\ historyMap' =
                   IF recordHistory /\ ranAtOnce /\ activeProject # None
                   THEN pushHistoryEntry(historyMap, activeProjectId,
                                         Val(activeProject).layout)
                   ELSE historyMap
    /\ UNCHANGED <<activeProjectId, nextProjectId>>

undo ==
    /\ IF activeProjectId = NoProject \/ activeProject = None
       THEN UNCHANGED <<projects, historyMap>>
       ELSE \E history \in {HistoryOf(historyMap, activeProjectId)} :
            IF history = None \/ Len(Val(history).undoStack) = 0
            THEN UNCHANGED <<projects, historyMap>>
            ELSE /\ projects' = WithActiveLayout(Head(Val(history).undoStack))
                 /\ historyMap' = WithHistory(historyMap, activeProjectId,
                        [undoStack |-> Tail(Val(history).undoStack),
                         redoStack |-> Take(<<Val(activeProject).layout>>
                                                \o Val(history).redoStack,
                                            MAX_HISTORY_ENTRIES)])
    /\ UNCHANGED <<activeProjectId, nextProjectId, nextLayout>>

redo ==
    /\ IF activeProjectId = NoProject \/ activeProject = None
       THEN UNCHANGED <<projects, historyMap>>
       ELSE \E history \in {HistoryOf(historyMap, activeProjectId)} :
            IF history = None \/ Len(Val(history).redoStack) = 0
            THEN UNCHANGED <<projects, historyMap>>
            ELSE /\ projects' = WithActiveLayout(Head(Val(history).redoStack))
                 /\ historyMap' = WithHistory(historyMap, activeProjectId,
                        [undoStack |-> Take(<<Val(activeProject).layout>>
                                                \o Val(history).undoStack,
                                            MAX_HISTORY_ENTRIES),
                         redoStack |-> Tail(Val(history).redoStack)])
    /\ UNCHANGED <<activeProjectId, nextProjectId, nextLayout>>

setActiveProjectId(id) ==
    /\ activeProjectId' = id
    /\ UNCHANGED <<projects, historyMap, nextProjectId, nextLayout>>

createProject ==
    /\ Len(projects) < MaxProjects
    /\ projects' = Append(projects, Project(nextProjectId, 0))
    /\ activeProjectId' = nextProjectId
    /\ historyMap' = WithHistory(historyMap, nextProjectId,
                                 [undoStack |-> <<>>, redoStack |-> <<>>])
    /\ nextProjectId' = nextProjectId + 1
    /\ UNCHANGED nextLayout

\* Variant: the active id is left as it is.
deleteProjectKeepsActive(id) ==
    /\ projects' = SelectSeq(projects, LAMBDA project : project.id # id)
    /\ UNCHANGED activeProjectId
    /\ historyMap' = [p \in DOMAIN historyMap \ {id} |-> historyMap[p]]
    /\ UNCHANGED <<nextProjectId, nextLayout>>

deleteProject(id) ==
    /\ \E remaining \in {SelectSeq(projects, LAMBDA project : project.id # id)} :
           /\ projects' = remaining
           /\ activeProjectId' =
                  IF activeProjectId = id
                  THEN (IF Len(remaining) > 0 THEN remaining[1].id ELSE NoProject)
                  ELSE activeProjectId
    /\ historyMap' = [p \in DOMAIN historyMap \ {id} |-> historyMap[p]]
    /\ UNCHANGED <<nextProjectId, nextLayout>>

\* reloadFromLocalStorage: the stored state is the state persisted by the
\* effect of the last render; the history is dropped.
reloadFromLocalStorage ==
    /\ historyMap' = <<>>
    /\ UNCHANGED <<projects, activeProjectId, nextProjectId, nextLayout>>

\* The history of project 1 after k recorded updates of the default layout:
\* the layouts k-1, ..., 0, newest first, cut to MAX_HISTORY_ENTRIES.
HistoryAfter(k) ==
    [undoStack |-> Take([i \in 1..k |-> k - i], MAX_HISTORY_ENTRIES), redoStack |-> <<>>]

\* A session starts from the initial state or after a run of recorded updates
\* that leaves the undo stack one short of full, or full.
ProjectsInit ==
    /\ CanvasAtRest
    /\ GeometryAtRest
    /\ CameraAtRest
    /\ exportProject = None
    /\ importFile = None
    /\ importResult = None
    /\ \/ ProjectsAtRest
       \/ \E k \in {MAX_HISTORY_ENTRIES - 1, MAX_HISTORY_ENTRIES} :
              /\ projects = <<Project(1, k)>>
              /\ activeProjectId = 1
              /\ historyMap = (1 :> HistoryAfter(k))
              /\ nextProjectId = 2
              /\ nextLayout = k + 1
              /\ ops = 0
              /\ lastOp = "load"
              /\ prevOp = "load"
              /\ lastLayout = k

ProjectsNext ==
    \/ \E ranAtOnce \in BOOLEAN :
           /\ Op(IF ranAtOnce THEN "update" ELSE "updateDeferred")
           /\ updateActiveProjectLayout(TRUE, ranAtOnce)
    \/ Op("updateUnrecorded") /\ updateActiveProjectLayout(FALSE, TRUE)
    \/ Op("undo") /\ undo
    \/ Op("redo") /\ redo
    \/ \E id \in ProjectIds : Op("select") /\ setActiveProjectId(id)
    \/ Op("create") /\ createProject
    \/ \E id \in ProjectIds \cup {nextProjectId} : Op("delete") /\ deleteProject(id)
    \/ Op("reload") /\ reloadFromLocalStorage

ProjectsSpec == ProjectsInit /\ [][ProjectsNext]_vars

\* ------------------------------------------------------------ properties
\* Vocabulary of the properties, stated on the layout itself.
ItemIn(items, id) == Val(FindItem(items, id))

\* The connections that have ref as one of their two endpoints.
EndpointUses(ref) ==
    {k \in DOMAIN connections : \E e \in 1..2 : connections[k].endpoints[e] = ref}

EndpointFree(ref) == EndpointUses(ref) = {}

\* Some member of the item's connected group is grounded.
InGroundedGroup(itemId) ==
    \E k \in DOMAIN placedItems :
        /\ placedItems[k].isGrounded
        /\ placedItems[k].id \in getConnectedGroupIds(itemId)

\* The connector key of an item under a pose, in world coordinates.
WorldConnector(item, key, pose) ==
    transformConnector(getConnectorByKey(geometryCache(item.componentId), key), pose)

DistSq(a, b) ==
    (a.xMm - b.xMm) * (a.xMm - b.xMm) + (a.yMm - b.yMm) * (a.yMm - b.yMm)

\* distance <= 8 mm and |angleDiff| <= 15 degrees.
WithinTolerance(moving, target) ==
    /\ DistSq(moving, target) <= SNAP_DISTANCE_MM * SNAP_DISTANCE_MM
    /\ Abs(normalizeAngle(moving.directionDeg - (target.directionDeg + 180)))
           <= ANGLE_TOLERANCE_DEG

\* The pairs <<k, movingKey, targetKey>>: connector movingKey of the item
\* under the tentative pose is within tolerance of connector targetKey of
\* another placed item, placedItems[k].
PairsInTolerance(itemId, tentative) ==
    IF FindItem(placedItems, itemId) = None THEN {}
    ELSE {p \in (DOMAIN placedItems) \X Range(ConnectorKeys) \X Range(ConnectorKeys) :
             /\ placedItems[p[1]].id # itemId
             /\ WithinTolerance(
                    WorldConnector(ItemIn(placedItems, itemId), p[2], tentative),
                    WorldConnector(placedItems[p[1]], p[3], PoseOf(placedItems[p[1]])))}

PairDistSq(itemId, tentative, p) ==
    DistSq(WorldConnector(ItemIn(placedItems, itemId), p[2], tentative),
           WorldConnector(placedItems[p[1]], p[3], PoseOf(placedItems[p[1]])))

\* The pairs within tolerance at the least distance.
NearestPairs(itemId, tentative) ==
    {p \in PairsInTolerance(itemId, tentative) :
        \A q \in PairsInTolerance(itemId, tentative) :
            PairDistSq(itemId, tentative, p) <= PairDistSq(itemId, tentative, q)}

TargetRef(p) == Ref(placedItems[p[1]].id, p[3])

\* This step appends exactly one connection, joining the pair p of itemId.
AddsConnection(itemId, p) ==
    /\ Len(connections') = Len(connections) + 1
    /\ SubSeq(connections', 1, Len(connections)) = connections
    /\ Range(connections'[Len(connections')].endpoints) = {Ref(itemId, p[2]), TargetRef(p)}

\* After this step the two connectors of pair p are at the same world position.
Coincides(itemId, p) ==
    /\ FindItem(placedItems', itemId) # None
    /\ FindItem(placedItems', placedItems[p[1]].id) # None
    /\ DistSq(WorldConnector(ItemIn(placedItems', itemId), p[2],
                             PoseOf(ItemIn(placedItems', itemId))),
              WorldConnector(ItemIn(placedItems', placedItems[p[1]].id), p[3],
                             PoseOf(ItemIn(placedItems', placedItems[p[1]].id)))) = 0

\* The pointer-up that ends a drag of an unconnected, ungrounded item, right
\* after a pointer-move and with the item as it was when the drag started.
DragCommitStep ==
    /\ lastEvent' = "pointerup"
    /\ lastEvent = "pointermove"
    /\ draggingItemId # NoItem
    /\ lastTentative # None
    /\ FindItem(placedItems, draggingItemId) # None
    /\ PoseOf(ItemIn(placedItems, draggingItemId)) = Val(dragStartTransform)
    /\ ~ItemIn(placedItems, draggingItemId).isGrounded
    /\ \A k \in DOMAIN connections, e \in 1..2 :
           connections[k].endpoints[e].itemId # draggingItemId

\* C1: after any sequence of editor operations no endpoint (itemId,
\* connectorKey) is an endpoint of more than one connection.
C1_EndpointInAtMostOneConnection ==
    \A i, j \in DOMAIN connections : \A a, b \in 1..2 :
        connections[i].endpoints[a] = connections[j].endpoints[b] => i = j

\* Connect has just joined a third piece to a chain of two: the middle piece
\* has both of its endpoints connected, each once.
C1_Witness ==
    /\ lastEvent = "connect"
    /\ Len(placedItems) = 3
    /\ Len(connections) = 2
    /\ \A k \in DOMAIN placedItems : ~placedItems[k].isGrounded
    /\ connectionMatchesEndpoints(connections[2], selectedEndpoints)

\* C2: after any sequence of editor operations every connection joins two
\* different items.
C2_ConnectionJoinsTwoItems ==
    \A k \in DOMAIN connections :
        connections[k].endpoints[1].itemId # connections[k].endpoints[2].itemId

\* Connect has just been asked to join the two ends of one piece.
C2_Witness ==
    /\ lastEvent = "connect"
    /\ Len(selectedEndpoints) = 2
    /\ selectedEndpoints[1].itemId = selectedEndpoints[2].itemId
    /\ selectedEndpoints[1] # selectedEndpoints[2]

\* C3: connectSelectedEndpoints on endpoints of two different connected
\* groups never changes the pose of an item whose connected group contains a
\* grounded item.
C3_GroundedGroupIsFixedSide ==
    [][(/\ lastEvent' = "connect"
        /\ Len(selectedEndpoints) = 2
        /\ selectedEndpoints[2].itemId
               \notin getConnectedGroupIds(selectedEndpoints[1].itemId)) =>
          \A k \in DOMAIN placedItems :
              InGroundedGroup(placedItems[k].id) =>
                  /\ k \in DOMAIN placedItems'
                  /\ PoseOf(placedItems'[k]) = PoseOf(placedItems[k])]_vars

\* C4: when a member of an item's connected group is grounded, a pointer-down
\* on the item starts no drag and leaves the layout as it is, the pointer-moves
\* and the pointer-up that follow with no drag in progress leave the layout as
\* it is, and so does rotateSelected on the item.
C4_GroundedGroupImmovable ==
    [][/\ (lastEvent' = "itemPointerDown" /\ InGroundedGroup(selectedItemId')) =>
              /\ UNCHANGED layoutVars
              /\ draggingItemId' = NoItem
              /\ dragPreview' = None
       /\ (lastEvent' \in {"pointermove", "pointerup", "pointerleave"}
              /\ draggingItemId = NoItem) =>
              UNCHANGED layoutVars
       /\ (lastEvent' = "rotate" /\ InGroundedGroup(selectedItemId)) =>
              UNCHANGED layoutVars]_vars

\* The pointer went down on an ungrounded end piece of a chain whose middle
\* piece is grounded: the piece is selected and no drag has started.
C4_Witness ==
    /\ lastEvent = "itemPointerDown"
    /\ selectedItemId # NoItem
    /\ ~isItemGrounded(selectedItemId)
    /\ InGroundedGroup(selectedItemId)
    /\ Cardinality(getConnectedGroupIds(selectedItemId)) = 3
    /\ draggingItemId = NoItem

\* C5: a pointerleave during a drag with a moved preview leaves placedItems
\* and connections as they were.
C5_PointerLeaveDiscardsPreview ==
    [][(/\ lastEvent' = "pointerleave"
        /\ draggingItemId # NoItem
        /\ dragPreview # dragStartTransform) =>
           (placedItems' = placedItems /\ connections' = connections)]_vars

\* C6: every endpoint of every connection refers to an item of placedItems.
C6_ConnectionsReferToPlacedItems ==
    \A k \in DOMAIN connections, e \in 1..2 :
        connections[k].endpoints[e].itemId \in ItemIdsOf(placedItems)

\* The first piece of the chain of three has just been deleted: its
\* connection went with it, the connection of the other two stayed.
C6_Witness ==
    /\ lastEvent = "delete"
    /\ ItemIdsOf(placedItems) = {2, 3}
    /\ connections = <<[endpoints |-> <<Ref(2, "end"), Ref(3, "start")>>]>>

\* C7: connectSelectedEndpoints changes no pose and adds no connection when
\* the two selected endpoints are on one item, or one of them already has a
\* connection, or the widths of the two connectors differ.
C7_RejectedConnectIsNoOp ==
    [][(/\ lastEvent' = "connect"
        /\ Len(selectedEndpoints) = 2
        /\ \/ selectedEndpoints[1].itemId = selectedEndpoints[2].itemId
           \/ ~EndpointFree(selectedEndpoints[1])
           \/ ~EndpointFree(selectedEndpoints[2])
           \/ WidthMismatch(
                  WorldConnector(ItemIn(placedItems, selectedEndpoints[1].itemId),
                                 selectedEndpoints[1].connectorKey,
                                 PoseOf(ItemIn(placedItems, selectedEndpoints[1].itemId))),
                  WorldConnector(ItemIn(placedItems, selectedEndpoints[2].itemId),
                                 selectedEndpoints[2].connectorKey,
                                 PoseOf(ItemIn(placedItems, selectedEndpoints[2].itemId))))) =>
           (placedItems' = placedItems /\ connections' = connections)]_vars

\* Connect has just been asked to join a free endpoint to an endpoint that is
\* connected to a third one.
C7_Witness ==
    /\ lastEvent = "connect"
    /\ Len(selectedEndpoints) = 2
    /\ selectedEndpoints[1].itemId # selectedEndpoints[2].itemId
    /\ ~EndpointFree(selectedEndpoints[1])
    /\ EndpointFree(selectedEndpoints[2])

\* C8: the target endpoint the snap detector returns for a dragged item never
\* belongs to an item of the dragged item's connected group.
C8_SnapTargetOutsideGroup ==
    snappedEndpoints # None =>
        Val(snappedEndpoints).target.itemId
            \notin getConnectedGroupIds(Val(snappedEndpoints).moving.itemId)

\* C9: at the pointer-up of a drag of an unconnected, ungrounded
\* item, if a connector of the item under the tentative pose is within
\* tolerance of a free connector of another item then exactly one connection
\* is added, it joins such a pair and the two connectors coincide; if no pair
\* is within tolerance no connection is added and the item is committed at
\* the tentative pose.
C9_SnapToAnyFreeConnector ==
    [][DragCommitStep =>
          /\ (\E p \in PairsInTolerance(draggingItemId, Val(lastTentative)) :
                  EndpointFree(TargetRef(p))) =>
                 \E p \in PairsInTolerance(draggingItemId, Val(lastTentative)) :
                     /\ EndpointFree(TargetRef(p))
                     /\ AddsConnection(draggingItemId, p)
                     /\ Coincides(draggingItemId, p)
          /\ PairsInTolerance(draggingItemId, Val(lastTentative)) = {} =>
                 /\ connections' = connections
                 /\ FindItem(placedItems', draggingItemId) # None
                 /\ PoseOf(ItemIn(placedItems', draggingItemId)) = Val(lastTentative)]_vars

\* What the commit does guarantee, in terms of the nearest pairs within
\* tolerance: at the pointer-up of such a drag, if they all have a free target
\* then exactly one connection is added, it joins one of them and the two
\* connectors coincide; if they all have a connected target no connection is
\* added; a connection that is added joins a nearest pair with a free target;
\* if no pair is within tolerance no connection is added and the item is
\* committed at the tentative pose.
DragCommitJoinsNearestPair ==
    [][DragCommitStep =>
          /\ (/\ NearestPairs(draggingItemId, Val(lastTentative)) # {}
              /\ \A p \in NearestPairs(draggingItemId, Val(lastTentative)) :
                     EndpointFree(TargetRef(p))) =>
                 \E p \in NearestPairs(draggingItemId, Val(lastTentative)) :
                     /\ AddsConnection(draggingItemId, p)
                     /\ Coincides(draggingItemId, p)
          /\ (/\ NearestPairs(draggingItemId, Val(lastTentative)) # {}
              /\ \A p \in NearestPairs(draggingItemId, Val(lastTentative)) :
                     ~EndpointFree(TargetRef(p))) =>
                 connections' = connections
          /\ connections' # connections =>
                 \E p \in NearestPairs(draggingItemId, Val(lastTentative)) :
                     /\ EndpointFree(TargetRef(p))
                     /\ AddsConnection(draggingItemId, p)
          /\ PairsInTolerance(draggingItemId, Val(lastTentative)) = {} =>
                 /\ connections' = connections
                 /\ FindItem(placedItems', draggingItemId) # None
                 /\ PoseOf(ItemIn(placedItems', draggingItemId)) = Val(lastTentative)]_vars

\* The third of three free pieces has just been dropped 8 mm from the ends of
\* the two others and is now connected to the first one, end to start.
DragCommitJoinsNearestPair_Witness ==
    /\ lastEvent = "pointerup"
    /\ nextId = 4
    /\ Len(placedItems) = 3
    /\ connections = <<[endpoints |-> <<Ref(1, "end"), Ref(3, "start")>>]>>
    /\ PoseOf(ItemIn(placedItems, 3)) = [x |-> 20, y |-> 0, rotationDeg |-> 0]

\* C10: the snap detector, called by a pointer-move of a drag with the
\* tentative pose, returns a result exactly when some pair (connector of the
\* moving item under the tentative pose, connector of another item) is within
\* 8 mm and 15 degrees; when no pair is, the drag preview is the tentative
\* pose itself.
C10_SnapIffPairInTolerance ==
    [][(/\ lastEvent' = "pointermove"
        /\ draggingItemId # NoItem
        /\ dragStartTransform # None) =>
           /\ (snappedEndpoints' # None)
                  <=> (PairsInTolerance(draggingItemId, Val(lastTentative')) # {})
           /\ PairsInTolerance(draggingItemId, Val(lastTentative')) = {} =>
                  dragPreview' = lastTentative']_vars

\* A pointer-move has just brought the dragged piece to 8 mm of another
\* piece's connector: the snap was found and the preview is the solved pose.
C10_Witness ==
    /\ lastEvent = "pointermove"
    /\ lastTentative # None
    /\ Val(lastTentative).x = 28
    /\ snappedEndpoints # None
    /\ dragPreview # lastTentative
    /\ \E p \in PairsInTolerance(draggingItemId, Val(lastTentative)) :
           PairDistSq(draggingItemId, Val(lastTentative), p)
               = SNAP_DISTANCE_MM * SNAP_DISTANCE_MM

\* The place of pair p in the iteration of computeSnappedTransform:
\* placedItems order, then moving-connector order, then target-connector order.
KeyIndex(key) == CHOOSE i \in DOMAIN ConnectorKeys : ConnectorKeys[i] = key

PairRank(p) ==
    (p[1] - 1) * NumPairs + (KeyIndex(p[2]) - 1) * Len(ConnectorKeys) + KeyIndex(p[3])

\* The endpoints record the snap detector returns for pair p of itemId.
PairEndpoints(itemId, p) == [moving |-> Ref(itemId, p[2]), target |-> TargetRef(p)]

\* C11: the pair the snap detector returns at a pointer-move of a drag is an
\* accepted pair at the least distance, and among the accepted pairs at that
\* distance it is the first one in iteration order (placedItems order, then
\* moving-connector order, then target-connector order).
C11_SnapReturnsFirstNearestPair ==
    [][(/\ lastEvent' = "pointermove"
        /\ draggingItemId # NoItem
        /\ dragStartTransform # None
        /\ snappedEndpoints' # None) =>
           \E p \in NearestPairs(draggingItemId, Val(lastTentative')) :
               /\ Val(snappedEndpoints') = PairEndpoints(draggingItemId, p)
               /\ \A q \in NearestPairs(draggingItemId, Val(lastTentative')) :
                      PairRank(p) <= PairRank(q)]_vars

\* A pointer-move has brought the dragged piece equally near to the starts
\* of two other pieces while the end of a piece that comes earlier in
\* placedItems is within tolerance but farther: the snap is the first of the
\* two nearest.
C11_Witness ==
    /\ lastEvent = "pointermove"
    /\ lastTentative # None
    /\ snappedEndpoints # None
    /\ \E p \in NearestPairs(draggingItemId, Val(lastTentative)) :
           /\ Val(snappedEndpoints) = PairEndpoints(draggingItemId, p)
           /\ \E q \in NearestPairs(draggingItemId, Val(lastTentative)) :
                  PairRank(p) < PairRank(q)
           /\ \E q \in PairsInTolerance(draggingItemId, Val(lastTentative)) :
                  /\ PairRank(q) < PairRank(p)
                  /\ PairDistSq(draggingItemId, Val(lastTentative), q)
                         > PairDistSq(draggingItemId, Val(lastTentative), p)

\* The step is one that can move a connected group: a connect, or the end of
\* a drag (with or without auto-connect).
GroupMoveStep == lastEvent' \in {"connect", "pointerup", "pointerleave"}

\* Items a and b of one connected group keep their relative rotation over the
\* step, and their relative position up to the rotation of a over the step;
\* positions are compared for quarter turns, where the rotation of an offset
\* is exact to the millimetre.
RigidPair(a, b) ==
    LET a1 == ItemIn(placedItems', a)
        b1 == ItemIn(placedItems', b)
        a0 == ItemIn(placedItems, a)
        b0 == ItemIn(placedItems, b)
        turn == normalizeAngle(a1.rotationDeg - a0.rotationDeg)
    IN  /\ normalizeAngle((b1.rotationDeg - a1.rotationDeg)
                          - (b0.rotationDeg - a0.rotationDeg)) = 0
        /\ (turn % 90 = 0) =>
               [x |-> b1.x - a1.x, y |-> b1.y - a1.y]
                   = rotatePointLocal(b0.x - a0.x, b0.y - a0.y, turn)

\* C12: over a connect and over the commit of a drag, any two members of one
\* connected group keep the same relative rotation and the same relative
\* position up to the common rotation.
C12_GroupMovesAreRigid ==
    [][GroupMoveStep =>
          \A a, b \in ItemIdsOf(placedItems) \cap ItemIdsOf(placedItems') :
              b \in getConnectedGroupIds(a) => RigidPair(a, b)]_vars

\* What the moves that make a connection do guarantee: over a connect, and
\* over the end of a drag that adds a connection, any two members of one
\* connected group keep their relative rotation and relative position.
ConnectingMovesAreRigid ==
    [][(GroupMoveStep /\ Len(connections') = Len(connections) + 1) =>
          \A a, b \in ItemIdsOf(placedItems) \cap ItemIdsOf(placedItems') :
              b \in getConnectedGroupIds(a) => RigidPair(a, b)]_vars

\* Every member of the connected group of itemId has after the step the pose
\* it had before.
GroupKeepsPoses(itemId) ==
    \A k \in DOMAIN placedItems :
        placedItems[k].id \in getConnectedGroupIds(itemId) =>
            /\ k \in DOMAIN placedItems'
            /\ PoseOf(placedItems'[k]) = PoseOf(placedItems[k])

\* A connect that joins the two selected endpoints, which are on items of two
\* different connected groups, neither item grounded.
ConnectJoinsTwoGroups ==
    /\ lastEvent' = "connect"
    /\ Len(selectedEndpoints) = 2
    /\ selectedEndpoints[2].itemId \notin getConnectedGroupIds(selectedEndpoints[1].itemId)
    /\ ~isItemGrounded(selectedEndpoints[1].itemId)
    /\ ~isItemGrounded(selectedEndpoints[2].itemId)
    /\ Len(connections') = Len(connections) + 1

GroupSize(itemId) == Cardinality(getConnectedGroupIds(itemId))

\* C13: in a connect of two groups with neither selected item grounded, the
\* group with strictly more members is the fixed side; when the two groups
\* have the same size the group of the endpoint the user selected last is the
\* moving side, so the other group is the fixed side.  The fixed side keeps
\* its poses.
C13_LargerGroupFixedTieMovesLastSelected ==
    [][ConnectJoinsTwoGroups =>
          /\ GroupSize(selectedEndpoints[1].itemId) > GroupSize(selectedEndpoints[2].itemId) =>
                 GroupKeepsPoses(selectedEndpoints[1].itemId)
          /\ GroupSize(selectedEndpoints[2].itemId) > GroupSize(selectedEndpoints[1].itemId) =>
                 GroupKeepsPoses(selectedEndpoints[2].itemId)
          /\ (/\ GroupSize(selectedEndpoints[1].itemId) = GroupSize(selectedEndpoints[2].itemId)
              /\ lastSelectedEndpoint # None) =>
                 \A k \in 1..2 :
                     Val(lastSelectedEndpoint).itemId
                         \notin getConnectedGroupIds(selectedEndpoints[k].itemId) =>
                             GroupKeepsPoses(selectedEndpoints[k].itemId)]_vars

\* What the connect does guarantee: the larger group is the fixed side, and
\* on a tie the fixed side is the group that does not hold the selected item
\* (selectedItemId, which a shift-click on a free endpoint sets to the item of
\* the clicked endpoint).
LargerGroupFixedTieMovesSelectedItem ==
    [][ConnectJoinsTwoGroups =>
          /\ GroupSize(selectedEndpoints[1].itemId) > GroupSize(selectedEndpoints[2].itemId) =>
                 GroupKeepsPoses(selectedEndpoints[1].itemId)
          /\ GroupSize(selectedEndpoints[2].itemId) > GroupSize(selectedEndpoints[1].itemId) =>
                 GroupKeepsPoses(selectedEndpoints[2].itemId)
          /\ GroupSize(selectedEndpoints[1].itemId) = GroupSize(selectedEndpoints[2].itemId) =>
                 \A k \in 1..2 :
                     (/\ selectedItemId \in getConnectedGroupIds(selectedEndpoints[3 - k].itemId)
                      /\ selectedItemId
                             \notin getConnectedGroupIds(selectedEndpoints[k].itemId)) =>
                         GroupKeepsPoses(selectedEndpoints[k].itemId)]_vars

\* A connect has just moved the free piece whose endpoint was shift-clicked
\* last onto the end of another free piece, which stayed where it was.
LargerGroupFixedTieMovesSelectedItem_Witness ==
    /\ lastEvent = "connect"
    /\ Len(connections) = 1
    /\ Len(selectedEndpoints) = 2
    /\ lastSelectedEndpoint = Some(selectedEndpoints[2])
    /\ selectedItemId = selectedEndpoints[2].itemId
    /\ connections[1].endpoints = <<selectedEndpoints[1], selectedEndpoints[2]>>
    /\ PoseOf(ItemIn(placedItems, selectedEndpoints[1].itemId))
           = [x |-> 0, y |-> 0, rotationDeg |-> 0]
    /\ selectedEndpoints[1].connectorKey = "end"
    /\ selectedEndpoints[2].connectorKey = "start"
    /\ PoseOf(ItemIn(placedItems, selectedEndpoints[2].itemId))
           = [x |-> 20, y |-> 0, rotationDeg |-> 0]
    /\ Len(placedItems) = 2

\* The step is a connect that appends a connection.
ConnectSucceeds ==
    /\ lastEvent' = "connect"
    /\ Len(connections') = Len(connections) + 1

\* The two endpoints of connection c meet in the layout after the step: same
\* world position, directions 180 degrees apart.
EndpointsMeet(c) ==
    LET a == WorldConnector(ItemIn(placedItems', c.endpoints[1].itemId),
                            c.endpoints[1].connectorKey,
                            PoseOf(ItemIn(placedItems', c.endpoints[1].itemId)))
        b == WorldConnector(ItemIn(placedItems', c.endpoints[2].itemId),
                            c.endpoints[2].connectorKey,
                            PoseOf(ItemIn(placedItems', c.endpoints[2].itemId)))
    IN  /\ a.xMm = b.xMm
        /\ a.yMm = b.yMm
        /\ normalizeAngle(b.directionDeg - (a.directionDeg + 180)) = 0

\* Scenario A at the scale of the catalog (1:10): a long straight at the
\* origin with rotation 0 whose end is joined, as the fixed side, to the
\* start of a short straight leaves the short straight at (20, 0, 0).
ScenarioA ==
    \A a, b \in ItemIdsOf(placedItems) :
        (/\ ItemIn(placedItems, a).componentId = "G20"
         /\ ItemIn(placedItems, b).componentId = "G15"
         /\ PoseOf(ItemIn(placedItems, a)) = [x |-> 0, y |-> 0, rotationDeg |-> 0]
         /\ Range(selectedEndpoints) = {Ref(a, "end"), Ref(b, "start")}
         /\ connections'[Len(connections')].endpoints = <<Ref(a, "end"), Ref(b, "start")>>) =>
            PoseOf(ItemIn(placedItems', b)) = [x |-> 20, y |-> 0, rotationDeg |-> 0]

\* C14: after a successful connectSelectedEndpoints the two endpoints of the
\* new connection are at the same world position with directions 180 degrees
\* apart; in particular the end of a long straight at (0, 0, 0) joined to the
\* start of a short straight leaves the short one at exactly (20, 0, 0).
C14_ConnectedEndpointsMeet ==
    [][ConnectSucceeds =>
          /\ EndpointsMeet(connections'[Len(connections')])
          /\ ScenarioA]_vars

\* What the connect does guarantee: when the two selected endpoints are on
\* items of two different connected groups, the endpoints of the new
\* connection meet, and Scenario A gives (20, 0, 0).
ConnectOfTwoGroupsMeets ==
    [][(/\ ConnectSucceeds
        /\ Len(selectedEndpoints) = 2
        /\ selectedEndpoints[2].itemId
               \notin getConnectedGroupIds(selectedEndpoints[1].itemId)) =>
           /\ EndpointsMeet(connections'[Len(connections')])
           /\ ScenarioA]_vars

\* Scenario A has just happened: the short straight, dropped at (29, 0), is
\* now at (20, 0, 0), joined by its start to the end of the long straight at
\* the origin.
ConnectOfTwoGroupsMeets_Witness ==
    /\ lastEvent = "connect"
    /\ Len(placedItems) = 2
    /\ placedItems[1].componentId = "G20"
    /\ placedItems[2].componentId = "G15"
    /\ PoseOf(placedItems[1]) = [x |-> 0, y |-> 0, rotationDeg |-> 0]
    /\ PoseOf(placedItems[2]) = [x |-> 20, y |-> 0, rotationDeg |-> 0]
    /\ connections = <<[endpoints |-> <<Ref(1, "end"), Ref(2, "start")>>]>>

\* C15: the connected groups partition the placed items: every placed item is
\* in its own group, membership is symmetric, and the groups of two placed
\* items are equal or disjoint.
C15_GroupsPartitionItems ==
    LET groups == {<<a, getConnectedGroupIds(a)>> : a \in ItemIdsOf(placedItems)}
    IN  \A p, q \in groups :
            /\ p[1] \in p[2]
            /\ (q[1] \in p[2]) <=> (p[1] \in q[2])
            /\ p[2] = q[2] \/ p[2] \cap q[2] = {}

\* A connect has just made a chain of three beside a piece with no connection:
\* one group of three, one group of the single piece.
C15_Witness ==
    /\ lastEvent = "connect"
    /\ Len(placedItems) = 4
    /\ Len(connections) = 2
    /\ \E a, b \in ItemIdsOf(placedItems) :
           /\ Cardinality(getConnectedGroupIds(a)) = 3
           /\ getConnectedGroupIds(b) = {b}
           /\ ~isItemConnected(b)

\* The connections that join the selected pair, read as an unordered pair.
SelectedPairConnections ==
    {k \in DOMAIN connections :
        /\ Len(selectedEndpoints) = 2
        /\ Range(connections[k].endpoints) = Range(selectedEndpoints)}

\* C16: disconnectSelectedEndpoints removes the connection that joins the
\* selected pair, in whichever order the pair is selected, and nothing else;
\* when no connection joins the pair it changes nothing; applied a second
\* time with the same selection it changes nothing.
C16_DisconnectRemovesUnorderedPair ==
    [][lastEvent' = "disconnect" =>
          /\ placedItems' = placedItems
          /\ SelectedPairConnections # {} =>
                 /\ Len(connections') = Len(connections) - 1
                 /\ connections' = SelectSeq(connections,
                        LAMBDA c : Range(c.endpoints) # Range(selectedEndpoints))
          /\ SelectedPairConnections = {} => connections' = connections
          /\ lastEvent = "disconnect" => connections' = connections]_vars

\* The pair was selected in the order opposite to the connection's
\* (2.start, then its partner 1.end), and the disconnect has removed the
\* connection 1.end - 2.start.
C16_Witness ==
    /\ lastEvent = "disconnect"
    /\ selectedEndpoints = <<Ref(2, "start"), Ref(1, "end")>>
    /\ Len(placedItems) = 2
    /\ PoseOf(placedItems[2]) = [x |-> 20, y |-> 0, rotationDeg |-> 0]
    /\ connections = <<>>

\* C17: deleteSelectedItem removes the selected item and exactly the
\* connections that have an endpoint on it; every other connection stays, in
\* the same order, and every other placed item stays, in the same order, with
\* its pose and its grounded flag.
C17_DeleteRemovesExactlyItsConnections ==
    [][(lastEvent' = "delete" /\ selectedItemId # NoItem) =>
          /\ \A k \in DOMAIN connections :
                 (\E j \in DOMAIN connections' : connections'[j] = connections[k])
                     <=> (\A e \in 1..2 :
                              connections[k].endpoints[e].itemId # selectedItemId)
          /\ \A j \in DOMAIN connections' :
                 \E k \in DOMAIN connections : connections'[j] = connections[k]
          /\ \A i, j \in DOMAIN connections' :
                 i < j => \E k, l \in DOMAIN connections :
                              /\ k < l
                              /\ connections[k] = connections'[i]
                              /\ connections[l] = connections'[j]
          /\ placedItems' = SelectSeq(placedItems, LAMBDA item : item.id # selectedItemId)]_vars

\* The first piece of one of two chains has just been deleted: the
\* connection of the other chain is still there, and the three other pieces
\* are where they were, the grounded one still grounded.
C17_Witness ==
    /\ lastEvent = "delete"
    /\ placedItems = <<Item(2, 20, 0, 0, TRUE), Item(3, 0, 0, 0, FALSE),
                       Item(4, 20, 0, 0, FALSE)>>
    /\ connections = <<[endpoints |-> <<Ref(3, "end"), Ref(4, "start")>>]>>

\* C18: the pointer-down that starts a drag and the pointer-moves of the drag
\* leave placedItems and connections as they are; a pointer-move changes
\* nothing but the preview state (dragPreview, dragGroupDelta,
\* snappedEndpoints), so the layout changes at the end of the drag only.
C18_PreviewLeavesLayoutAlone ==
    [][/\ lastEvent' = "itemPointerDown" =>
              (placedItems' = placedItems /\ connections' = connections)
       /\ lastEvent' = "pointermove" =>
              /\ placedItems' = placedItems
              /\ connections' = connections
              /\ UNCHANGED <<nextId, selectedItemId, selectedEndpoints, draggingItemId,
                             dragStartTransform, dragGroupIds,
                             dragGroupStartTransforms, isPanning>>]_vars

\* A pointer-move of a drag, at least the third event of the session, has
\* just moved the preview: the dragged piece is shown away from where the
\* layout still has it.
C18_Witness ==
    /\ lastEvent = "pointermove"
    /\ events >= 3
    /\ draggingItemId # NoItem
    /\ dragPreview # None
    /\ snappedEndpoints = None
    /\ FindItem(placedItems, draggingItemId) # None
    /\ Val(dragPreview) # PoseOf(ItemIn(placedItems, draggingItemId))
    /\ Val(dragPreview) = Val(lastTentative)
    /\ PoseOf(ItemIn(placedItems, draggingItemId)) = Val(dragStartTransform)

\* --------------------------------------------- properties of the import
\* The file that was imported, and what the import answered.
ImportedLayout == Val(Val(Val(importFile).project).layout)

\* A file with a project that has a layout was imported.
Imported ==
    /\ importFile # None
    /\ importResult # None
    /\ Val(importFile).project # None
    /\ Val(Val(importFile).project).layout # None

HasNonFiniteField(item) ==
    ~isFiniteNumber(item.x) \/ ~isFiniteNumber(item.y) \/ ~isFiniteNumber(item.rotationDeg)

\* A connection of the file names an item the file does not place.
FileHasDanglingConnection(layout) ==
    \E k \in DOMAIN layout.connections, e \in 1..2 :
        layout.connections[k].endpoints[e].itemId \notin ItemIdsOf(layout.placedItems)

\* A placed item of the file is of a track system or component the file does
\* not have.
FileHasDanglingItem(layout) == hasDanglingItems(layout.trackSystems, layout.placedItems)

FileHasNonFiniteItem(layout) ==
    \E k \in DOMAIN layout.placedItems : HasNonFiniteField(layout.placedItems[k])

\* C19: import is all-or-nothing: parseProjectImport answers ok: false for
\* every file with a connection to a missing item, a placed item of a missing
\* component or track system, or a placed item with a non-finite numeric
\* field; it never answers ok with the offending entries dropped.
C19_ImportIsAllOrNothing ==
    (/\ Imported
     /\ \/ FileHasDanglingConnection(ImportedLayout)
        \/ FileHasDanglingItem(ImportedLayout)
        \/ FileHasNonFiniteItem(ImportedLayout)) =>
        ~Val(importResult).ok

\* What the import does reject: a file in which a placed item with finite
\* numbers is of a missing component or track system.
ImportRejectsDanglingFiniteItem ==
    (/\ Imported
     /\ \E k \in DOMAIN ImportedLayout.placedItems :
            /\ ~HasNonFiniteField(ImportedLayout.placedItems[k])
            /\ ~ComponentKnown(ImportedLayout.trackSystems, ImportedLayout.placedItems[k])) =>
        ~Val(importResult).ok

\* A file of the current version with a valid track system and two finite
\* placed items, the first of a component the system does not have, has been
\* imported and refused.
ImportRejectsDanglingFiniteItem_Witness ==
    /\ Imported
    /\ Val(importFile).version = Some(EXPORT_VERSION)
    /\ Len(ImportedLayout.trackSystems) = 1
    /\ isFiniteNumber(ImportedLayout.trackSystems[1].ratio)
    /\ Len(ImportedLayout.placedItems) = 2
    /\ ~FileHasNonFiniteItem(ImportedLayout)
    /\ ~ComponentKnown(ImportedLayout.trackSystems, ImportedLayout.placedItems[1])
    /\ ~Val(importResult).ok

\* What an accepted import holds: every placed item is of a component of its
\* track system and every connection joins two placed items of the result.
AcceptedImportIsConsistent ==
    (Imported /\ Val(importResult).ok) => LayoutIsValid(Val(importResult).project.layout)

\* A file with a connection to a missing item was accepted, without it.
AcceptedImportIsConsistent_Witness ==
    /\ Imported
    /\ FileHasDanglingConnection(ImportedLayout)
    /\ Val(importResult).ok
    /\ Len(Val(importResult).project.layout.placedItems) = 2
    /\ Len(Val(importResult).project.layout.connections) = 0

\* ----------------------------------------- properties of the round trip
RoundTripDone == exportProject # None /\ importResult # None

\* The catalog of the layout has no component of type crossing and none with
\* a color.
PlainCatalog(layout) ==
    \A s \in DOMAIN layout.trackSystems : \A c \in DOMAIN layout.trackSystems[s].components :
        /\ isTrackComponentType(layout.trackSystems[s].components[c].type)
        /\ layout.trackSystems[s].components[c].color = None

\* C20: serialization round-trips exactly: for every project with a valid
\* layout, crossing components and colored components and the items placed
\* from them included, parseProjectImport(buildProjectExport(project)) answers
\* ok with a layout equal to the project's.
C20_RoundTripIsExact ==
    RoundTripDone =>
        /\ Val(importResult).ok
        /\ Val(importResult).project.layout = Val(exportProject).layout

\* What the round trip does give: it is exact for the layouts whose catalog
\* has no crossing and no color.
RoundTripOfPlainCatalogIsExact ==
    (RoundTripDone /\ PlainCatalog(Val(exportProject).layout)) =>
        /\ Val(importResult).ok
        /\ Val(importResult).project.layout = Val(exportProject).layout

\* A project with two placed items, one grounded, a connection and a shape
\* has made the round trip.
RoundTripOfPlainCatalogIsExact_Witness ==
    /\ RoundTripDone
    /\ PlainCatalog(Val(exportProject).layout)
    /\ Len(Val(exportProject).layout.placedItems) = 2
    /\ Val(exportProject).layout.placedItems[1].isGrounded = Some(TRUE)
    /\ Len(Val(exportProject).layout.connections) = 1
    /\ Len(Val(exportProject).layout.shapes) = 1
    /\ Val(importResult).ok

\* ------------------------------------- properties of the import's errors
\* The import returned a result value.
Returned(result) == "ok" \in DOMAIN result

\* C21: parseProjectImport reports every expected failure as a result value
\* and never throws: for text that is not JSON, JSON null, a JSON number,
\* string or array, an object without project or layout, and an unsupported
\* version it returns ok: false with an error or ok: true with a project.
C21_ImportNeverThrows ==
    (importFile # None /\ importResult # None) => Returned(Val(importResult))

\* What the import does give: a result value for every file but JSON null,
\* and ok: false for every file that has no layout.
ImportOfNonNullReturns ==
    (importFile # None /\ importResult # None /\ Val(importFile).kind # "null") =>
        /\ Returned(Val(importResult))
        /\ (Val(importFile).project = None /\ Val(importFile).layout = None) =>
               ~Val(importResult).ok

\* A JSON array has been imported and refused with a result value.
ImportOfNonNullReturns_Witness ==
    /\ importFile # None
    /\ importResult # None
    /\ Val(importFile).kind = "array"
    /\ Returned(Val(importResult))
    /\ ~Val(importResult).ok

\* ------------------------------- properties of the geometry provider
GeometryAsked == definition # None /\ geometry # None

\* The definition lacks a numeric field its type or variant requires: a
\* straight without lengthMm, a curve without radiusMm or angleDeg, a switch
\* whose variant record is not complete, a crossing without lengthMm or
\* crossingAngleDeg in its meta.
LacksRequiredField(def) ==
    \/ def.type = "straight" /\ def.lengthMm = None
    \/ def.type = "curve" /\ (def.radiusMm = None \/ def.angleDeg = None)
    \/ /\ def.type = "switch"
       /\ def.meta # None
       /\ ~isSimpleSwitchMeta(def.meta)
       /\ ~isCurvedSwitchMeta(def.meta)
       /\ ~isThreeWaySwitchMeta(def.meta)
       /\ ~isYSwitchMeta(def.meta)
       /\ ~isDoubleSlipMeta(def.meta)
    \/ def.type = "crossing" /\ ~isCrossingMeta(def.meta)

\* The default straight segment: 10 mm from the origin along +X.
DefaultStraight ==
    [start |-> makeConnector(0, 0, 180), end |-> makeConnector(10, 0, 0)]

\* C22: for every catalog definition that lacks a required numeric field for
\* its type or variant, getComponentGeometry returns the default straight
\* segment and emits a diagnostic (in a build that writes diagnostics), and it
\* never throws.
C22_InvalidDefinitionGivesDefaultStraight ==
    (GeometryAsked /\ isDev /\ LacksRequiredField(Val(definition))) =>
        /\ Val(geometry) = DefaultStraight
        /\ diagnostics # <<>>

\* What the provider does give: a geometry with a start and an end for every
\* definition, and for a type it does not know and no length the default
\* straight segment, with a diagnostic in a DEV build.
UnknownTypeGivesDefaultStraight ==
    GeometryAsked =>
        /\ {"start", "end"} \subseteq DOMAIN Val(geometry)
        /\ (/\ Val(definition).type \notin {"straight", "curve", "switch", "crossing"}
            /\ Val(definition).lengthMm = None) =>
               /\ Val(geometry) = DefaultStraight
               /\ isDev => diagnostics = <<Val(definition).id>>

\* The geometry of a definition of an unknown type without a length has been
\* asked for in a DEV build.
UnknownTypeGivesDefaultStraight_Witness ==
    /\ GeometryAsked
    /\ isDev
    /\ Val(definition).type = "turntable"
    /\ Val(definition).lengthMm = None
    /\ Val(geometry) = DefaultStraight
    /\ diagnostics = <<"X">>

\* ------------------------------------------- properties of the rotation
\* A rotate command with a placed item selected.
RotateOfSelected ==
    /\ lastEvent' = "rotate"
    /\ selectedItemId # NoItem
    /\ FindItem(placedItems, selectedItemId) # None

\* Over the step the items other than the selected one and all connections
\* are kept, and of the selected item only the pose changes.
OnlySelectedPoseChanges ==
    /\ connections' = connections
    /\ DOMAIN placedItems' = DOMAIN placedItems
    /\ \A k \in DOMAIN placedItems :
           IF placedItems[k].id = selectedItemId
           THEN [placedItems'[k] EXCEPT !.x = placedItems[k].x, !.y = placedItems[k].y,
                                        !.rotationDeg = placedItems[k].rotationDeg]
                    = placedItems[k]
           ELSE placedItems'[k] = placedItems[k]

\* The selected item is turned by one of the deltas of the command, into
\* (-180, 180].
SelectedTurnsByDelta ==
    /\ \E d \in RotateDeltas :
           ItemIn(placedItems', selectedItemId).rotationDeg
               = normalizeAngle(ItemIn(placedItems, selectedItemId).rotationDeg + d)
    /\ ItemIn(placedItems', selectedItemId).rotationDeg > -180
    /\ ItemIn(placedItems', selectedItemId).rotationDeg <= 180
    /\ ItemIn(placedItems', selectedItemId).rotationDeg
           # ItemIn(placedItems, selectedItemId).rotationDeg

\* C23: connected items cannot be rotated individually: rotateSelected leaves
\* the layout unchanged whenever the selected item is an endpoint of at least
\* one connection; when the item is unconnected and ungrounded it changes only
\* that item's pose, by the given delta normalized to (-180, 180].
C23_ConnectedItemsDoNotRotate ==
    [][RotateOfSelected =>
          /\ isItemConnected(selectedItemId) =>
                 placedItems' = placedItems /\ connections' = connections
          /\ (~isItemConnected(selectedItemId) /\ ~isItemGrounded(selectedItemId)) =>
                 OnlySelectedPoseChanges /\ SelectedTurnsByDelta]_vars

\* A rotate command has just been given with a connected item selected, and
\* every item of the chain still has the rotation it was loaded with.
C23_Witness ==
    /\ lastEvent = "rotate"
    /\ selectedItemId # NoItem
    /\ isItemConnected(selectedItemId)
    /\ ~isItemGrounded(selectedItemId)
    /\ \A k \in DOMAIN placedItems : placedItems[k].rotationDeg = 0

\* --------------------------------------------- properties of the camera
\* C24: after any sequence of wheel events the camera scale stays within
\* [0.35, 4].
C24_ScaleStaysInRange ==
    /\ 100 * camera.scale >= 35 * ScaleUnit
    /\ camera.scale <= 4 * ScaleUnit

\* Eleven wheel events have been handled and the scale is at its upper limit:
\* the last zoom-in was cut off at 4.
C24_Witness ==
    /\ wheelEvents = 11
    /\ camera.scale = 4 * ScaleUnit

\* -------------------------------------- properties of normalizeAngle
\* C25: normalizeAngle maps every integer degree value d to the unique r with
\* -180 < r <= 180 and r congruent to d modulo 360 (so -180 goes to 180 and
\* 540 goes to 180), and it is idempotent.
C25_NormalizeAngleIsCanonical ==
    normalized # None =>
        /\ Val(normalized) > -180
        /\ Val(normalized) <= 180
        /\ (Val(normalized) - deg) % 360 = 0
        /\ \A r \in -179..180 : (r - deg) % 360 = 0 => r = Val(normalized)
        /\ normalizeAngle(Val(normalized)) = Val(normalized)
        /\ deg \in {-180, 540} => Val(normalized) = 180

\* normalizeAngle(-180) has been computed and is 180.
C25_Witness ==
    /\ deg = -180
    /\ normalized = Some(180)

\* ------------------------------------------ properties of the curve
\* Scenario B: the geometry of a curve of radius 500 mm and angle 30 degrees,
\* counter-clockwise, has been computed.
ScenarioB ==
    /\ GeometryAsked
    /\ Val(definition).type = "curve"
    /\ Val(definition).radiusMm = Some(500)
    /\ Val(definition).angleDeg = Some(30)
    /\ ~Val(definition).clockwise

\* The end connector of the computed geometry for an item at the origin with
\* rotation 0.
EndAtOrigin ==
    transformConnector(Val(geometry).end, [x |-> 0, y |-> 0, rotationDeg |-> 0])

\* C27 as stated: for a curve of radius 500, angle 30 degrees,
\* counter-clockwise, at the origin with rotation 0, the end connector is at
\* about (250.0, 33.5); checked to half a millimetre.
C27_CurveEndAsStated ==
    ScenarioB =>
        /\ EndAtOrigin.xMm = 250
        /\ Abs(10 * EndAtOrigin.yMm - 335) <= 5

\* C27, amended: the end connector of that curve is at (r sin 30, r (1 - cos
\* 30)), which is (250.0, 67.0) to the millimetre.
C27_CurveEndIsRSinRVersine ==
    ScenarioB =>
        /\ EndAtOrigin.xMm = 250
        /\ EndAtOrigin.yMm = 67
        /\ EndAtOrigin.directionDeg = 0

\* Scenario B has happened and the end connector is 67 mm off the axis.
C27_Witness ==
    /\ ScenarioB
    /\ EndAtOrigin.yMm = 67

\* ------------------------------------- properties of stored connections
\* The world connector of an endpoint of the layout, under the stored pose of
\* its item.
StoredConnector(ref) ==
    WorldConnector(ItemIn(placedItems, ref.itemId), ref.connectorKey,
                   PoseOf(ItemIn(placedItems, ref.itemId)))

\* The two endpoints of connection c are at the same world position with
\* directions 180 degrees apart, in the stored layout.
Aligned(c) ==
    LET a == StoredConnector(c.endpoints[1])
        b == StoredConnector(c.endpoints[2])
    IN  /\ a.xMm = b.xMm
        /\ a.yMm = b.yMm
        /\ normalizeAngle(b.directionDeg - (a.directionDeg + 180)) = 0

\* Both endpoints of connection c are on placed items.
Attached(c) ==
    \A e \in 1..2 : c.endpoints[e].itemId \in ItemIdsOf(placedItems)

\* C28: after any sequence of editor operations, every stored connection is
\* geometrically aligned: its two connectors have the same world position and
\* opposite world directions.
C28_EveryConnectionAligned ==
    \A k \in DOMAIN connections :
        Attached(connections[k]) /\ Aligned(connections[k])

\* The step is a connect with two selected endpoints on different items.
ConnectOfTwoItems ==
    /\ lastEvent' = "connect"
    /\ Len(selectedEndpoints) = 2
    /\ selectedEndpoints[1].itemId # selectedEndpoints[2].itemId

\* The item with this id has after the step the pose it had before.
KeepsPose(itemId) ==
    /\ itemId \in ItemIdsOf(placedItems')
    /\ PoseOf(ItemIn(placedItems', itemId)) = PoseOf(ItemIn(placedItems, itemId))

\* C29: connectSelectedEndpoints never changes the pose of the item carrying
\* the fixed endpoint, for every pair of selected endpoints on different
\* items, the two items being in one connected group included.
C29_ConnectKeepsFixedItem ==
    [][ConnectOfTwoItems => KeepsPose(ConnectRoles.fixed.itemId)]_vars

\* What the connect does guarantee: when the two selected endpoints are on
\* items of two different connected groups, the item carrying the fixed
\* endpoint, and its whole group, keep their poses.
ConnectOfTwoGroupsKeepsFixedGroup ==
    [][(/\ ConnectOfTwoItems
        /\ selectedEndpoints[2].itemId
               \notin getConnectedGroupIds(selectedEndpoints[1].itemId)) =>
           /\ KeepsPose(ConnectRoles.fixed.itemId)
           /\ GroupKeepsPoses(ConnectRoles.fixed.itemId)]_vars

\* A connect has just joined two groups: the pair 1-2, which was the fixed
\* side and is where it was, and the single item 3, whose start was moved
\* onto the end of item 2.
ConnectOfTwoGroupsKeepsFixedGroup_Witness ==
    /\ lastEvent = "connect"
    /\ Len(placedItems) = 3
    /\ Len(connections) = 2
    /\ connections[1].endpoints = <<Ref(1, "end"), Ref(2, "start")>>
    /\ connections[2].endpoints = <<Ref(2, "end"), Ref(3, "start")>>
    /\ PoseOf(placedItems[1]) = [x |-> 0, y |-> 0, rotationDeg |-> 0]
    /\ PoseOf(placedItems[2]) = [x |-> 20, y |-> 0, rotationDeg |-> 0]
    /\ PoseOf(placedItems[3]) = [x |-> 40, y |-> 0, rotationDeg |-> 0]

\* ------------------------------------------ properties of the drag commit
\* The step ends a drag for which a pointer-move has drawn a preview.
CommitOfPreviewedDrag ==
    /\ lastEvent' \in {"pointerup", "pointerleave"}
    /\ draggingItemId # NoItem
    /\ lastTentative # None

\* The pose the commit stored for the item equals the pose getItemTransform
\* rendered for it before the commit, rotations compared as angles.
StoredAsPreviewed(item) ==
    /\ item.id \in ItemIdsOf(placedItems')
    /\ ItemIn(placedItems', item.id).x = getItemTransform(item).x
    /\ ItemIn(placedItems', item.id).y = getItemTransform(item).y
    /\ normalizeAngle(ItemIn(placedItems', item.id).rotationDeg
                      - getItemTransform(item).rotationDeg) = 0

\* C30: for every drag, the poses of the dragged item and of all members of
\* its connected group stored by the pointer-up commit, with or without
\* auto-connect, equal the poses rendered by getItemTransform for the last
\* pointer-move preview.
C30_CommitPersistsPreview ==
    [][CommitOfPreviewedDrag =>
          \A k \in DOMAIN placedItems :
              placedItems[k].id \in getConnectedGroupIds(draggingItemId) =>
                  StoredAsPreviewed(placedItems[k])]_vars

\* What the commit does guarantee: when the last preview has the rotation the
\* dragged item had at the start of the drag (the snap, if any, only
\* translated) and the item was not rotated during the drag, the stored poses
\* of the dragged item and of its group are the rendered ones.
UnrotatedCommitPersistsPreview ==
    [][(/\ CommitOfPreviewedDrag
        /\ dragPreview # None
        /\ dragStartTransform # None
        /\ normalizeAngle(Val(dragPreview).rotationDeg
                          - Val(dragStartTransform).rotationDeg) = 0
        /\ draggingItemId \in ItemIdsOf(placedItems)
        /\ ItemIn(placedItems, draggingItemId).rotationDeg
               = Val(dragStartTransform).rotationDeg) =>
          \A k \in DOMAIN placedItems :
              placedItems[k].id \in getConnectedGroupIds(draggingItemId) =>
                  StoredAsPreviewed(placedItems[k])]_vars

\* A drag of the connected pair 1-2 by item 2 has just been committed 9 mm to
\* the right of where it started, both items moved alike.
UnrotatedCommitPersistsPreview_Witness ==
    /\ lastEvent = "pointerup"
    /\ Len(placedItems) = 2
    /\ connections = <<[endpoints |-> <<Ref(1, "end"), Ref(2, "start")>>]>>
    /\ PoseOf(placedItems[1]) = [x |-> 9, y |-> 0, rotationDeg |-> 0]
    /\ PoseOf(placedItems[2]) = [x |-> 29, y |-> 0, rotationDeg |-> 0]

\* The step ends a drag and adds no connection.
CommitWithoutConnection ==
    /\ lastEvent' \in {"pointerup", "pointerleave"}
    /\ draggingItemId # NoItem
    /\ dragGroupIds # None
    /\ Len(connections') <= Len(connections)

\* Items a and b are moved by the step by the same (dx, dy), with no change
\* of rotation.
SameTranslation(a, b) ==
    /\ ItemIn(placedItems', a).x - ItemIn(placedItems, a).x
           = ItemIn(placedItems', b).x - ItemIn(placedItems, b).x
    /\ ItemIn(placedItems', a).y - ItemIn(placedItems, a).y
           = ItemIn(placedItems', b).y - ItemIn(placedItems, b).y
    /\ ItemIn(placedItems', a).rotationDeg = ItemIn(placedItems, a).rotationDeg
    /\ ItemIn(placedItems', b).rotationDeg = ItemIn(placedItems, b).rotationDeg

\* C31: a drag commit that creates no connection translates every member of
\* the dragged item's connected group, as captured at pointer-down, by the
\* same (dx, dy), changes no rotation, changes no item outside that group,
\* and leaves the connections unchanged.
C31_CommitTranslatesGroup ==
    [][CommitWithoutConnection =>
          /\ connections' = connections
          /\ ItemIdsOf(placedItems') = ItemIdsOf(placedItems)
          /\ \A a, b \in Val(dragGroupIds) \cap ItemIdsOf(placedItems) :
                 SameTranslation(a, b)
          /\ \A a \in ItemIdsOf(placedItems) \ Val(dragGroupIds) :
                 ItemIn(placedItems', a) = ItemIn(placedItems, a)]_vars

\* What the commit does guarantee: when the preview is away from where the
\* drag started (dragGroupDelta is not (0, 0)), a commit that creates no
\* connection translates the captured group and changes nothing else.
MovedCommitTranslatesGroup ==
    [][(/\ CommitWithoutConnection
        /\ dragGroupDelta # None
        /\ dragGroupStartTransforms # None
        /\ Val(dragGroupDelta) # [x |-> 0, y |-> 0]) =>
          /\ connections' = connections
          /\ ItemIdsOf(placedItems') = ItemIdsOf(placedItems)
          /\ \A a \in ItemIdsOf(placedItems) :
                 IF a \in DOMAIN Val(dragGroupStartTransforms)
                 THEN /\ ItemIn(placedItems', a).x
                             = Val(dragGroupStartTransforms)[a].x + Val(dragGroupDelta).x
                      /\ ItemIn(placedItems', a).y
                             = Val(dragGroupStartTransforms)[a].y + Val(dragGroupDelta).y
                      /\ ItemIn(placedItems', a).rotationDeg
                             = ItemIn(placedItems, a).rotationDeg
                 ELSE ItemIn(placedItems', a) = ItemIn(placedItems, a)]_vars

\* ------------------------------------------ properties of auto-connect
\* The step is a pointer-up or pointer-leave that adds a connection.
PointerUpConnects ==
    /\ lastEvent' \in {"pointerup", "pointerleave"}
    /\ connections' # connections

\* The item with this id is placed and has its grounded flag set.
GroundedItem(itemId) ==
    \E k \in DOMAIN placedItems : placedItems[k].id = itemId /\ placedItems[k].isGrounded

\* C32: a pointer-up adds a connection only when a drag has snapped endpoints
\* whose target item is outside the moving item's connected group, both
\* endpoints are unconnected and the moving item is not grounded; the
\* connection added joins those two endpoints, and in every other case the
\* connections stay as they are.
C32_AutoConnectOnlyWhenAllowed ==
    [][PointerUpConnects =>
          /\ draggingItemId # NoItem
          /\ snappedEndpoints # None
          /\ Val(snappedEndpoints).target.itemId
                 \notin getConnectedGroupIds(Val(snappedEndpoints).moving.itemId)
          /\ EndpointFree(Val(snappedEndpoints).moving)
          /\ EndpointFree(Val(snappedEndpoints).target)
          /\ ~GroundedItem(Val(snappedEndpoints).moving.itemId)
          /\ connections' = Append(connections,
                 [endpoints |-> <<Val(snappedEndpoints).target,
                                  Val(snappedEndpoints).moving>>])]_vars

\* A pointer-up has just joined the end of the dragged item 1 to the start of
\* item 2, which was free and in another group.
C32_Witness ==
    /\ lastEvent = "pointerup"
    /\ Len(placedItems) = 2
    /\ connections = <<[endpoints |-> <<Ref(2, "start"), Ref(1, "end")>>]>>
    /\ PoseOf(placedItems[2]) = [x |-> 29, y |-> 0, rotationDeg |-> 15]
    /\ placedItems[1].rotationDeg = 15

\* ------------------------------- properties of the imported connections
\* The layout of an accepted import.
AcceptedLayout == Val(importResult).project.layout

\* No connection of the layout has both endpoints on one item.
NoSelfConnection(layout) ==
    \A k \in DOMAIN layout.connections :
        layout.connections[k].endpoints[1].itemId
            # layout.connections[k].endpoints[2].itemId

\* No endpoint of the layout occurs in two connections, or twice in one.
NoSharedEndpoint(layout) ==
    \A j, k \in DOMAIN layout.connections : \A d, e \in 1..2 :
        layout.connections[j].endpoints[d] = layout.connections[k].endpoints[e] =>
            j = k /\ d = e

\* Every connection endpoint of the layout is on a placed item of the layout.
NoDanglingEndpoint(layout) ==
    \A k \in DOMAIN layout.connections, e \in 1..2 :
        layout.connections[k].endpoints[e].itemId \in ItemIdsOf(layout.placedItems)

\* C33: every layout parseProjectImport returns with ok: true satisfies the
\* connection invariants: no connection has both endpoints on the same item,
\* no endpoint occurs in two connections, and every connection endpoint
\* refers to a placed item of the imported layout.
C33_ImportedConnectionsAreSound ==
    (Imported /\ Val(importResult).ok) =>
        /\ NoSelfConnection(AcceptedLayout)
        /\ NoSharedEndpoint(AcceptedLayout)
        /\ NoDanglingEndpoint(AcceptedLayout)

\* What an accepted import does hold of its connections: each has two
\* endpoints, both on placed items of the imported layout.
ImportedConnectionsJoinPlacedItems ==
    (Imported /\ Val(importResult).ok) =>
        /\ NoDanglingEndpoint(AcceptedLayout)
        /\ \A k \in DOMAIN AcceptedLayout.connections :
               Len(AcceptedLayout.connections[k].endpoints) = 2

\* The file with a
\* connection from item 2 to the missing item 9 was accepted with both items
\* and no connection.
ImportedConnectionsJoinPlacedItems_Witness ==
    /\ Imported
    /\ Val(importResult).ok
    /\ ImportedLayout.connections = <<[endpoints |-> <<Ref(2, "end"), Ref(9, "start")>>]>>
    /\ Len(AcceptedLayout.placedItems) = 2
    /\ AcceptedLayout.connections = <<>>

\* ------------------------------------------ properties of the pointer-up
PointerUpEvents == {"pointerup", "pointerleave"}

\* Nothing is dragged, previewed or snapped, and panning is off, after the
\* step.
IdleAfter ==
    /\ draggingItemId' = NoItem
    /\ dragPreview' = None
    /\ dragGroupIds' = None
    /\ dragGroupDelta' = None
    /\ snappedEndpoints' = None
    /\ ~isPanning'

\* C34: a drag is committed at most once: after a pointer-up or pointer-leave
\* event the canvas is idle (draggingItemId, dragPreview, dragGroupIds,
\* dragGroupDelta and snappedEndpoints are null, panning is off), and a
\* pointer-up or pointer-leave event that follows one, or comes when nothing
\* is dragged, changes no item and adds no connection.
C34_DragCommittedAtMostOnce ==
    [][lastEvent' \in PointerUpEvents =>
          /\ IdleAfter
          /\ (lastEvent \in PointerUpEvents \/ draggingItemId = NoItem) =>
                 /\ placedItems' = placedItems
                 /\ connections' = connections]_vars

\* A drag of a single item to (14, 0) has been committed by a pointer-up and
\* the canvas is idle.
C34_Witness ==
    /\ lastEvent \in PointerUpEvents
    /\ events >= 3
    /\ draggingItemId = NoItem
    /\ dragPreview = None
    /\ snappedEndpoints = None
    /\ \E k \in DOMAIN placedItems : placedItems[k].x = 14 /\ placedItems[k].y = 0

\* ------------------------------------ properties of the endpoint selection
\* The step is a plain click on an endpoint that has a connection.
PlainClickOnConnected ==
    /\ lastEvent' = "endpointClick"
    /\ lastSelectedEndpoint' # None
    /\ ~EndpointFree(Val(lastSelectedEndpoint'))

\* C39: after any sequence of plain and shift clicks on endpoints at most 2
\* endpoints are selected, and a plain click on a connected endpoint selects
\* exactly the two endpoints of its connection.
C39_AtMostTwoEndpointsSelected ==
    /\ [](Len(selectedEndpoints) <= 2)
    /\ [][PlainClickOnConnected =>
             /\ Len(selectedEndpoints') = 2
             /\ \A k \in EndpointUses(Val(lastSelectedEndpoint')) :
                    Range(selectedEndpoints') = Range(connections[k].endpoints)]_vars

\* A plain click on 2.start, while 1.start was selected, has selected 1.end
\* and 2.start, the endpoints of the one connection.
C39_Witness ==
    /\ lastEvent = "endpointClick"
    /\ lastSelectedEndpoint = Some(Ref(2, "start"))
    /\ connections = <<[endpoints |-> <<Ref(1, "end"), Ref(2, "start")>>]>>
    /\ selectedEndpoints = <<Ref(1, "end"), Ref(2, "start")>>
    /\ events >= 2

\* ------------------------------------------ properties of undo and redo
\* The layout of the active project after the step.
ActiveLayoutAfter ==
    LET k == CHOOSE k \in DOMAIN projects' : projects'[k].id = activeProjectId'
    IN  projects'[k].layout

\* The stacks of the active project, empty when it has no history.
ActiveUndoStack ==
    IF activeProjectId \in DOMAIN historyMap THEN historyMap[activeProjectId].undoStack
    ELSE <<>>

ActiveRedoStack ==
    IF activeProjectId \in DOMAIN historyMap THEN historyMap[activeProjectId].redoStack
    ELSE <<>>

\* updateActiveProjectLayout without recordHistory: false.
RecordedUpdates == {"update", "updateDeferred"}

\* undo with an empty undo stack and redo with an empty redo stack change
\* nothing.
EmptyStacksChangeNothing ==
    /\ (lastOp' = "undo" /\ ActiveUndoStack = <<>>) =>
           projects' = projects /\ historyMap' = historyMap
    /\ (lastOp' = "redo" /\ ActiveRedoStack = <<>>) =>
           projects' = projects /\ historyMap' = historyMap

\* C35: undo and redo are inverse: after a recorded layout update from L0 to
\* L1, undo makes the active project's layout equal to L0, and a redo
\* immediately after makes it equal to L1 again; undo with an empty undo
\* stack and redo with an empty redo stack change nothing.
C35_UndoRedoAreInverse ==
    [][/\ (lastOp \in RecordedUpdates /\ lastOp' = "undo" /\ activeProject # None) =>
              ActiveLayoutAfter = lastLayout
       /\ (/\ prevOp \in RecordedUpdates
           /\ lastOp = "undo"
           /\ lastOp' = "redo"
           /\ activeProject # None) =>
              ActiveLayoutAfter = lastLayout
       /\ EmptyStacksChangeNothing]_vars

\* What undo and redo do guarantee: after a recorded update whose updater ran
\* at once, undo restores the layout before the update and a redo right after
\* restores the updated layout; with an empty stack they change nothing.
UndoRedoAreInverseWhenRecorded ==
    [][/\ (lastOp = "update" /\ lastOp' = "undo" /\ activeProject # None) =>
              ActiveLayoutAfter = lastLayout
       /\ (/\ prevOp = "update"
           /\ lastOp = "undo"
           /\ lastOp' = "redo"
           /\ activeProject # None) =>
              ActiveLayoutAfter = lastLayout
       /\ EmptyStacksChangeNothing]_vars

\* An update of the default layout to layout 1, an undo and a redo have been
\* done: the layout is 1 again, with the default layout on the undo stack.
UndoRedoAreInverseWhenRecorded_Witness ==
    /\ lastOp = "redo"
    /\ prevOp = "undo"
    /\ ops = 3
    /\ projects = <<Project(1, 1)>>
    /\ historyMap = (1 :> [undoStack |-> <<0>>, redoStack |-> <<>>])

\* C36: every recorded layout update of the active project pushes the
\* pre-update layout on that project's undo stack and empties its redo stack,
\* so redo is unavailable after any new edit.
C36_RecordedUpdatePushesHistory ==
    [][(lastOp' \in RecordedUpdates /\ activeProject # None) =>
          /\ activeProjectId \in DOMAIN historyMap'
          /\ historyMap'[activeProjectId].undoStack
                 = Take(<<Val(activeProject).layout>> \o ActiveUndoStack,
                        MAX_HISTORY_ENTRIES)
          /\ historyMap'[activeProjectId].redoStack = <<>>]_vars

\* What the update does guarantee: a recorded update whose updater ran at
\* once pushes the pre-update layout and empties the redo stack.
UpdateRunAtOncePushesHistory ==
    [][(lastOp' = "update" /\ activeProject # None) =>
          /\ activeProjectId \in DOMAIN historyMap'
          /\ historyMap'[activeProjectId].undoStack
                 = Take(<<Val(activeProject).layout>> \o ActiveUndoStack,
                        MAX_HISTORY_ENTRIES)
          /\ historyMap'[activeProjectId].redoStack = <<>>]_vars

\* An update, an undo and a new update have been done: the redo stack, which
\* held layout 1 after the undo, is empty.
UpdateRunAtOncePushesHistory_Witness ==
    /\ lastOp = "update"
    /\ prevOp = "undo"
    /\ ops = 3
    /\ projects = <<Project(1, 2)>>
    /\ historyMap = (1 :> [undoStack |-> <<0>>, redoStack |-> <<>>])

\* C37: after any sequence of layout updates, undos and redos, every
\* project's undo stack and redo stack hold at most 60 layouts; a push on a
\* full undo stack drops its oldest entry.
C37_HistoryIsBounded ==
    /\ [](\A id \in DOMAIN historyMap :
              /\ Len(historyMap[id].undoStack) <= MAX_HISTORY_ENTRIES
              /\ Len(historyMap[id].redoStack) <= MAX_HISTORY_ENTRIES)
    /\ [][(/\ lastOp' \in RecordedUpdates \cup {"redo"}
           /\ activeProject # None
           /\ Len(ActiveUndoStack) = MAX_HISTORY_ENTRIES
           /\ activeProjectId \in DOMAIN historyMap'
           /\ historyMap'[activeProjectId].undoStack # ActiveUndoStack) =>
              historyMap'[activeProjectId].undoStack
                  = <<Val(activeProject).layout>>
                        \o SubSeq(ActiveUndoStack, 1, MAX_HISTORY_ENTRIES - 1)]_vars

\* The 61st recorded update has been done: the undo stack holds the layouts
\* 60 down to 1, and the default layout 0, the oldest, is gone.
C37_Witness ==
    /\ lastOp = "update"
    /\ 1 \in DOMAIN historyMap
    /\ Len(historyMap[1].undoStack) = MAX_HISTORY_ENTRIES
    /\ historyMap[1].undoStack[1] = MAX_HISTORY_ENTRIES
    /\ historyMap[1].undoStack[MAX_HISTORY_ENTRIES] = 1

\* ------------------------------------------ properties of the project list
\* C38: after any sequence of createProject and deleteProject the active id
\* is null or the id of a project in the list: deleting the active project
\* makes the first remaining project active (null when none remains),
\* deleting another project leaves the active id unchanged, and the deleted
\* project's history is removed.
C38_ActiveProjectIsListed ==
    /\ [](activeProjectId = NoProject \/ activeProjectId \in ProjectIds)
    /\ [][lastOp' = "delete" =>
             /\ (activeProjectId \in ProjectIds \ {projects'[k].id : k \in DOMAIN projects'}) =>
                    activeProjectId' = IF Len(projects') = 0 THEN NoProject
                                       ELSE projects'[1].id
             /\ (activeProjectId \in {projects'[k].id : k \in DOMAIN projects'}) =>
                    activeProjectId' = activeProjectId
             /\ \A id \in ProjectIds \ {projects'[k].id : k \in DOMAIN projects'} :
                    id \notin DOMAIN historyMap'
             /\ \E id \in ProjectIds \cup {nextProjectId} :
                    projects' = SelectSeq(projects, LAMBDA p : p.id # id)]_vars

\* Project 2 was created, project 1 selected and then deleted: project 2,
\* the first that remains, is active and project 1 has no history.
C38_Witness ==
    /\ lastOp = "delete"
    /\ prevOp = "select"
    /\ projects = <<Project(2, 0)>>
    /\ activeProjectId = 2
    /\ 1 \notin DOMAIN historyMap

====
